---- MODULE Spec2Model ----
(***************************************************************************)
(* State-machine model of the persistence engine of vue-todo-list-learn:   *)
(*   - the Pinia store            src/src/stores/todoStore.ts              *)
(*   - the storage helpers        src/unnamed/part_005 (storage.ts,        *)
(*                                todoStorage.ts)                          *)
(*   - the durable binding        src/src/composables/index.ts             *)
(*                                (useLocalStorage)                        *)
(*   - the storage facade         src/unnamed/part_005 (useTodoStorage)    *)
(*   - the statistics of useTodos src/src/composables/useTodos.ts          *)
(*                                                                         *)
(* A title is a string of the shape  ws^pre . 'a'^core . ws^post  and is   *)
(* held as the record [pre, core, post]; a blank string has core = 0 and   *)
(* keeps its whole length in pre.  A Date is its millisecond count, its    *)
(* JSON form is the pair <<"iso", ms>>.                                    *)
(***************************************************************************)
EXTENDS Integers, Sequences, FiniteSets, TLC

VARIABLES
    todos,        \* store: ref<Todo[]>                (todoStore.ts:30)
    filter,       \* store: ref<FilterType>            (todoStore.ts:33)
    loading,      \* store: ref(false)                 (todoStore.ts:36)
    error,        \* store: ref<string | null>         (todoStore.ts:39)
    initialized,  \* store: ref(false)                 (todoStore.ts:42)
    todosJob,     \* scheduler job of watch(todos, .., {deep: true})
    filterJob,    \* scheduler job of watch(filter, ..)
    filterSeen,   \* the old value the filter watcher compares against
    lsTodos,      \* localStorage['vue-todo-list:todos']
    lsFilter,     \* localStorage['vue-todo-list:filter']
    available,    \* outcome of the isStorageAvailable() probe
    now,          \* Date.now()
    call,         \* the call just made: the operation and whether it succeeded
    bvalue,       \* binding: value                   (index.ts:89)
    bloading,     \* binding: loading                 (index.ts:90)
    berror,       \* binding: error                   (index.ts:91)
    bonError,     \* binding: what the call just made passed to onError
    saveTimer,    \* binding: the handle saveTimer    (index.ts:94), 0 for null
    bjob,         \* binding: scheduler job of watch(value, .., {deep: true})
    timers,       \* the runtime's live timers: [id, left], left in ticks
    timerSeq,     \* the last handle setTimeout returned
    bitem,        \* binding: localStorage[key]
    ver,          \* the number of values committed to bvalue so far
    itemVer,      \* which of them the last write to the key persisted
    burst,        \* the commits since the last auto-save
    sinceCommit,  \* the ticks since the last commit
    coalesced,    \* the commits the last auto-save covered
    bcaller,      \* binding: the last call its caller made and what the key
                  \* held when the call returned
    ftodos,       \* facade: todos.value.value        (part_005:1073)
    ffilter,      \* facade: filter.value.value       (part_005:1082)
    fsettings,    \* facade: settings.value.value     (part_005:1091)
    lsSettings,   \* localStorage['vue-todo-list:settings']
    fbind,        \* facade: the rest of its bindings: what the objects given
                  \* as defaultValue hold now, whether todos.value and
                  \* settings.value are those objects, and the bindings with
                  \* an auto-save queued or on a timer
    snapshot,     \* what a caller holds from getStateSnapshot(): whether it
                  \* took one, its filter, loading and error, and its todos,
                  \* each with the object's fields and, as link, the index
                  \* at which the store's array holds the same object (0
                  \* when it does not)
    isProcessing, \* useTodos: ref(false)              (useTodos.ts:112)
    reloading     \* useTodos: a reload() stands at its await
                  \*                                   (useTodos.ts:383)

storeVars == <<todos, filter, loading, error, initialized,
               todosJob, filterJob, filterSeen, lsTodos, lsFilter>>

bindingVars == <<bvalue, bloading, berror, bonError, saveTimer, bjob, timers, timerSeq,
                 bitem, ver, itemVer, burst, sinceCommit, coalesced, bcaller>>

facadeVars == <<ftodos, ffilter, fsettings, lsSettings, fbind>>

callerVars == <<snapshot>>

todosVars == <<isProcessing, reloading>>

vars == <<storeVars, available, now, call, bindingVars, facadeVars, callerVars, todosVars>>

----------------------------------------------------------------------------
(* Bounds of the model *)

MaxTodos == 2        \* longest collection explored
MaxNow == 1          \* last clock value explored
MaxStored == 1       \* longest collection explored together with the storage
MaxCommits == 3      \* most values committed to the binding
SaveDelay == 2       \* the binding's saveDelay option, in ticks
MaxRated == 3        \* longest collection whose completion rate is computed

(* Program constants *)

MaxTitleLength == 200     \* todoStore.ts:222, todoStore.ts:298

----------------------------------------------------------------------------
(* Strings *)

Str(pre, core, post) == [pre |-> pre, core |-> core, post |-> post]

\* title.length
TitleLen(t) == t.pre + t.core + t.post

\* String.prototype.trim
trim(t) == IF t.core = 0 THEN Str(0, 0, 0) ELSE Str(0, t.core, 0)

\* the titles the callers pass:  "", "  ", " a ", " " + 'a'.repeat(200),
\* 'a'.repeat(201)
Titles == { Str(0, 0, 0), Str(2, 0, 0), Str(1, 1, 1), Str(1, 200, 0),
            Str(0, 201, 0) }

\* the random suffixes Math.random().toString(36).substring(2, 8) yields
RandomParts == {"r1", "r2"}

Filters == {"all", "active", "completed"}

NoError == "null"

\* an id that generateId never produced
MissingId == [ts |-> 0 - 1, rnd |-> "r1"]

----------------------------------------------------------------------------
(* Sequence helpers: Array.prototype.filter / map / find / findIndex *)

SeqFilter(s, Keep(_)) == SelectSeq(s, Keep)

SeqMap(s, F(_)) == [i \in 1..Len(s) |-> F(s[i])]

\* the index of the first element with this id, 0 when there is none
\* (findIndex() === -1)
findIndex(ts, id) ==
    IF \E i \in 1..Len(ts) : ts[i].id = id
    THEN CHOOSE i \in 1..Len(ts) :
            /\ ts[i].id = id
            /\ \A j \in 1..(i - 1) : ts[j].id # id
    ELSE 0

IdsOf(ts) == {ts[i].id : i \in 1..Len(ts)}

----------------------------------------------------------------------------
(* todoStorage.ts: generateId, and the JSON form of a Todo list *)

generateId(ms, r) == [ts |-> ms, rnd |-> r]

\* the Date that new Date(undefined) makes: Invalid Date
InvalidDate == 0 - 1

\* Date.prototype.toJSON: ISO-8601 text, null for Invalid Date
dateToJson(d) == IF d = InvalidDate THEN <<"null", 0>> ELSE <<"iso", d>>

\* a date member that the JSON text does not have
NoDate == <<"undefined", 0>>

\* new Date(j) for a member of a parsed JSON object: the instant an ISO
\* text names, the epoch for null, Invalid Date for a missing member
newDate(j) ==
    IF j[1] = "iso" THEN j[2] ELSE IF j[1] = "null" THEN 0 ELSE InvalidDate

\* JSON.stringify of a Todo: the two Dates go through toJSON; the JSON
\* types of title and completed are kept beside their values
todoToJson(t) ==
    [id |-> t.id, title |-> t.title, completed |-> t.completed,
     createdAt |-> dateToJson(t.createdAt),
     updatedAt |-> dateToJson(t.updatedAt),
     titleType |-> "string", completedType |-> "boolean"]

serializeData(ts) == [kind |-> "json", data |-> SeqMap(ts, todoToJson)]

\* loadTodos: new Date(todo.createdAt), new Date(todo.updatedAt)
todoFromJson(j) ==
    [id |-> j.id, title |-> j.title, completed |-> j.completed,
     createdAt |-> newDate(j.createdAt), updatedAt |-> newDate(j.updatedAt)]

Absent == [kind |-> "absent", data |-> <<>>]
Corrupt == [kind |-> "corrupt", data |-> <<>>]

\* getStorageItem(key, defaultValue) as used by loadTodos and loadFilter:
\* [success, data]
getStorageItem(avail, item, defaultValue) ==
    IF ~avail THEN [success |-> FALSE, data |-> defaultValue]
    ELSE IF item.kind = "absent" THEN [success |-> TRUE, data |-> defaultValue]
    ELSE IF item.kind = "corrupt" THEN [success |-> FALSE, data |-> defaultValue]
    ELSE [success |-> TRUE, data |-> item.data]

\* setStorageItem(key, value): [success, item], item being what the key
\* holds afterwards
setStorageItem(avail, item, json) ==
    IF avail THEN [success |-> TRUE, item |-> json]
    ELSE [success |-> FALSE, item |-> item]

loadTodos(avail, item) ==
    LET result == getStorageItem(avail, item, <<>>)
    IN  IF result.success
        THEN [success |-> TRUE, data |-> SeqMap(result.data, todoFromJson)]
        ELSE result

saveTodos(avail, item, ts) == setStorageItem(avail, item, serializeData(ts))

loadFilter(avail, item) == getStorageItem(avail, item, "all")

saveFilter(avail, item, f) ==
    setStorageItem(avail, item, [kind |-> "json", data |-> f])

----------------------------------------------------------------------------
(* todoStore.ts: getters *)

\* mutant of filteredTodos: the filter 'all' hides the completed Todos
filteredTodosHidesCompleted(ts, f) ==
    IF f = "completed" THEN SeqFilter(ts, LAMBDA t : t.completed)
    ELSE SeqFilter(ts, LAMBDA t : ~t.completed)

filteredTodos(ts, f) ==
    IF f = "active" THEN SeqFilter(ts, LAMBDA t : ~t.completed)
    ELSE IF f = "completed" THEN SeqFilter(ts, LAMBDA t : t.completed)
    ELSE ts

\* mutant of completedCount: counts every Todo
completedCountAll(ts) == Len(ts)

completedCount(ts) == Len(SeqFilter(ts, LAMBDA t : t.completed))

activeCount(ts) == Len(SeqFilter(ts, LAMBDA t : ~t.completed))

totalCount(ts) == Len(ts)

hasTodos(ts) == Len(ts) > 0

allCompleted(ts) == Len(ts) > 0 /\ \A i \in 1..Len(ts) : ts[i].completed

\* mutant of RoundPercent: Math.floor in place of Math.round
FloorPercent(x, y) == (100 * x) \div y

\* Math.round(x / y * 100) for x >= 0, y > 0: floor(100x/y + 1/2)
RoundPercent(x, y) == (200 * x + y) \div (2 * y)

\* useTodos.ts: stats.completionRate
statsCompletionRate(ts) ==
    IF totalCount(ts) > 0 THEN RoundPercent(completedCount(ts), totalCount(ts))
    ELSE 0

----------------------------------------------------------------------------
(* todoStore.ts: actions, as functions of the collection.  Each yields     *)
(* [todos, error, ok, ret]: the collection and the error afterwards,       *)
(* whether the call succeeded (no throw, no failure sentinel) and what it  *)
(* returned.                                                               *)

Outcome(ts, err, ok, ret) == [todos |-> ts, error |-> err, ok |-> ok, ret |-> ret]

\* !title || title.trim().length === 0
IsBlank(title) == TitleLen(title) = 0 \/ TitleLen(trim(title)) = 0

IsTooLong(title) == TitleLen(trim(title)) > MaxTitleLength

\* mutant of newTodo: the title is stored as passed
newTodoUntrimmed(id, title, ms) ==
    [id |-> id, title |-> title, completed |-> FALSE,
     createdAt |-> ms, updatedAt |-> ms]

newTodo(id, title, ms) ==
    [id |-> id, title |-> trim(title), completed |-> FALSE,
     createdAt |-> ms, updatedAt |-> ms]

\* ret: <<the new Todo>>, or <<>> when the call throws
addTodo(ts, title, id, ms) ==
    IF IsBlank(title) THEN Outcome(ts, "title-empty", FALSE, <<>>)
    ELSE IF IsTooLong(title) THEN Outcome(ts, "title-too-long", FALSE, <<>>)
    ELSE LET todo == newTodo(id, title, ms)
         IN  Outcome(Append(ts, todo), NoError, TRUE, <<todo>>)

\* mutant of toggleTodo: an absent id is reported without setting error
toggleTodoSilent(ts, id, ms) ==
    LET i == findIndex(ts, id)
    IN  IF i = 0 THEN Outcome(ts, NoError, FALSE, FALSE)
        ELSE Outcome([ts EXCEPT ![i].completed = ~ts[i].completed,
                                ![i].updatedAt = ms],
                     NoError, TRUE, TRUE)

toggleTodo(ts, id, ms) ==
    LET i == findIndex(ts, id)
    IN  IF i = 0 THEN Outcome(ts, "not-found", FALSE, FALSE)
        ELSE Outcome([ts EXCEPT ![i].completed = ~ts[i].completed,
                                ![i].updatedAt = ms],
                     NoError, TRUE, TRUE)

deleteTodo(ts, id) ==
    LET i == findIndex(ts, id)
    IN  IF i = 0 THEN Outcome(ts, "not-found", FALSE, FALSE)
        ELSE Outcome(SubSeq(ts, 1, i - 1) \o SubSeq(ts, i + 1, Len(ts)),
                     NoError, TRUE, TRUE)

updateTodo(ts, id, title, ms) ==
    IF IsBlank(title) THEN Outcome(ts, "title-empty", FALSE, FALSE)
    ELSE IF IsTooLong(title) THEN Outcome(ts, "title-too-long", FALSE, FALSE)
    ELSE LET i == findIndex(ts, id)
         IN  IF i = 0 THEN Outcome(ts, "not-found", FALSE, FALSE)
             ELSE Outcome([ts EXCEPT ![i].title = trim(title),
                                     ![i].updatedAt = ms],
                          NoError, TRUE, TRUE)

\* mutant of toggleAllTodos: updatedAt is set on every Todo
toggleAllTodosBumpsAll(ts, completed, ms) ==
    Outcome([i \in 1..Len(ts) |->
                [ts[i] EXCEPT !.completed = completed, !.updatedAt = ms]],
            NoError, TRUE, TRUE)

toggleAllTodos(ts, completed, ms) ==
    Outcome([i \in 1..Len(ts) |->
                IF ts[i].completed # completed
                THEN [ts[i] EXCEPT !.completed = completed, !.updatedAt = ms]
                ELSE ts[i]],
            NoError, TRUE, TRUE)

\* mutant of clearCompleted: returns the number of Todos kept
clearCompletedCountsKept(ts) ==
    Outcome(SeqFilter(ts, LAMBDA t : ~t.completed), NoError, TRUE,
            Len(SeqFilter(ts, LAMBDA t : ~t.completed)))

\* ret: the number of Todos removed
clearCompleted(ts) ==
    Outcome(SeqFilter(ts, LAMBDA t : ~t.completed), NoError, TRUE,
            Len(SeqFilter(ts, LAMBDA t : t.completed)))

setTodos(ts, newTodos) == Outcome(newTodos, NoError, TRUE, TRUE)

clearAllTodos(ts) == Outcome(<<>>, NoError, TRUE, TRUE)

\* titles.filter(title => title && title.trim().length > 0)
validTitles(titles) == SeqFilter(titles, LAMBDA t : ~IsBlank(t))

\* mutant of addMultipleTodos: only '' is dropped, titles of whitespace
\* are kept
addMultipleTodosKeepsWhitespace(ts, titles, ids, ms) ==
    LET valid == SeqFilter(titles, LAMBDA t : TitleLen(t) > 0)
        news == [i \in 1..Len(valid) |-> newTodo(ids[i], valid[i], ms)]
    IN  IF Len(valid) = 0 THEN Outcome(ts, "no-valid-titles", FALSE, <<>>)
        ELSE Outcome(ts \o news, NoError, TRUE, news)

\* ids: one generated id per valid title; ret: the new Todos
addMultipleTodos(ts, titles, ids, ms) ==
    LET valid == validTitles(titles)
        news == [i \in 1..Len(valid) |-> newTodo(ids[i], valid[i], ms)]
    IN  IF Len(valid) = 0 THEN Outcome(ts, "no-valid-titles", FALSE, <<>>)
        ELSE Outcome(ts \o news, NoError, TRUE, news)

----------------------------------------------------------------------------
(* The watchers of todoStore.ts:110-127.  A watcher's job is queued by the *)
(* mutation and runs in the next microtask flush; the job remembers        *)
(* whether it was queued only by callers' mutations committed while        *)
(* initialized was false ("queuedPreInit") or also by loadFromStorage or   *)
(* by a mutation committed after initialization ("queued").                *)

trigger(job, init) ==
    IF init THEN "queued" ELSE IF job = "idle" THEN "queuedPreInit" ELSE job

Call(op, ok) == [op |-> op, ok |-> ok]

\* a call with what it was given, or with that and what it returned
CallWith(op, ok, arg) == [op |-> op, ok |-> ok, arg |-> arg]

\* the store takes the outcome o of an action that touched the collection
\* iff touched
\* where the objects of an array are afterwards: each stays at its index
\* (writes in place, push), none is left (a new array of new objects)
Stay(ts) == [i \in 1..Len(ts) |-> i]

NoneLeft(ts) == [i \in 1..Len(ts) |-> 0]

\* splice(index, 1): the object at index leaves, those behind it move up;
\* index = 0 when nothing was found
Spliced(ts, index) ==
    [i \in 1..Len(ts) |->
        IF index = 0 \/ i < index THEN i ELSE IF i = index THEN 0 ELSE i - 1]

\* filter(todo => !todo.completed): the completed objects leave, an active
\* one comes after the active ones before it
ActiveKept(ts) ==
    [i \in 1..Len(ts) |->
        IF ts[i].completed THEN 0
        ELSE Cardinality({j \in 1..i : ~ts[j].completed})]

\* the snapshot after the store's array went from its objects to after,
\* moved telling where each object is now: an object the snapshot shares
\* with the array shows the fields it has now
relink(snap, moved, after) ==
    [snap EXCEPT !.todos =
        [i \in 1..Len(snap.todos) |->
            LET e == snap.todos[i]
            IN  IF e.link = 0 THEN e
                ELSE IF moved[e.link] = 0 THEN [e EXCEPT !.link = 0]
                ELSE [todo |-> after[moved[e.link]], link |-> moved[e.link]]]]

\* the store takes the outcome o of an action that touched the collection
\* iff touched and left its objects where moved tells
CommitMoved(o, touched, moved) ==
    /\ todos' = o.todos
    /\ error' = o.error
    /\ todosJob' = IF touched THEN trigger(todosJob, initialized) ELSE todosJob
    /\ snapshot' = relink(snapshot, moved, o.todos)
    /\ UNCHANGED <<filter, loading, initialized, filterJob, filterSeen,
                   lsTodos, lsFilter, available, now, bindingVars, facadeVars>>

\* ... by writing in place or pushing
Commit(o, touched) == CommitMoved(o, touched, Stay(todos))

\* the ids a caller passes: those of the collection and one that is not there
IdArgs == IdsOf(todos) \cup {MissingId}

\* store.addTodo(title), title drawn from T, the random suffix from R, the
\* collection kept within max entities
AddTodoOn(T, R, max) ==
    \E title \in T, r \in R :
        LET o == addTodo(todos, title, generateId(now, r), now)
        IN  /\ Len(o.todos) <= max
            /\ Commit(o, o.ok)
            /\ call' = Call("addTodo", o.ok)
            /\ UNCHANGED todosVars

StoreToggleTodo ==
    \E id \in IdArgs :
        LET o == toggleTodo(todos, id, now)
        IN  /\ Commit(o, o.ok)
            /\ call' = Call("toggleTodo", o.ok)
            /\ UNCHANGED todosVars

StoreDeleteTodo ==
    \E id \in IdArgs :
        LET o == deleteTodo(todos, id)
        IN  /\ CommitMoved(o, o.ok, Spliced(todos, findIndex(todos, id)))
            /\ call' = Call("deleteTodo", o.ok)
            /\ UNCHANGED todosVars

UpdateTodoOn(T) ==
    \E id \in IdArgs, title \in T :
        LET o == updateTodo(todos, id, title, now)
        IN  /\ Commit(o, o.ok)
            /\ call' = Call("updateTodo", o.ok)
            /\ UNCHANGED todosVars

StoreToggleAllTodos ==
    \E completed \in BOOLEAN :
        LET o == toggleAllTodos(todos, completed, now)
        IN  /\ Commit(o, o.todos # todos)
            /\ call' = Call("toggleAllTodos", o.ok)
            /\ UNCHANGED todosVars

StoreClearCompleted ==
    LET o == clearCompleted(todos)
    IN  /\ CommitMoved(o, TRUE, ActiveKept(todos))
        /\ call' = Call("clearCompleted", o.ok)
        /\ UNCHANGED todosVars

\* a Todo as a caller of setTodos builds it
CallerTodo ==
    [id |-> [ts |-> 0, rnd |-> "r1"], title |-> Str(0, 1, 0), completed |-> TRUE,
     createdAt |-> 0, updatedAt |-> 0]

StoreSetTodos ==
    \E newTodos \in {<<>>, <<CallerTodo>>} :
        LET o == setTodos(todos, newTodos)
        IN  /\ CommitMoved(o, TRUE, NoneLeft(todos))
            /\ call' = Call("setTodos", o.ok)
            /\ UNCHANGED todosVars

StoreClearAllTodos ==
    LET o == clearAllTodos(todos)
    IN  /\ CommitMoved(o, TRUE, NoneLeft(todos))
        /\ call' = Call("clearAllTodos", o.ok)
        /\ UNCHANGED todosVars

\* the title lists the callers pass: [], ["  "], ["", "  "], [" a "],
\* ['a'.repeat(201)], [" a ", "  "], ["  ", " " + 'a'.repeat(200), " a "]
TitleLists ==
    { <<>>, <<Str(2, 0, 0)>>, <<Str(0, 0, 0), Str(2, 0, 0)>>, <<Str(1, 1, 1)>>,
      <<Str(0, 201, 0)>>, <<Str(1, 1, 1), Str(2, 0, 0)>>,
      <<Str(2, 0, 0), Str(1, 200, 0), Str(1, 1, 1)>> }

StoreAddMultipleTodos ==
    \E titles \in TitleLists, rs \in [1..2 -> RandomParts] :
        LET ids == [i \in 1..2 |-> generateId(now, rs[i])]
            o == addMultipleTodos(todos, titles, ids, now)
        IN  /\ Len(o.todos) <= MaxTodos
            /\ Commit(o, o.ok)
            /\ call' = CallWith("addMultipleTodos", o.ok,
                                [titles |-> titles, ret |-> o.ret])
            /\ UNCHANGED todosVars

StoreSetFilter ==
    \E newFilter \in Filters :
        /\ filter' = newFilter
        /\ error' = NoError
        /\ filterJob' = IF newFilter # filter THEN trigger(filterJob, initialized)
                         ELSE filterJob
        /\ call' = Call("setFilter", TRUE)
        /\ UNCHANGED <<todos, loading, initialized, todosJob, filterSeen,
                       lsTodos, lsFilter, available, now, bindingVars,
                       facadeVars, callerVars, todosVars>>

StoreClearError ==
    /\ error' = NoError
    /\ call' = Call("clearError", TRUE)
    /\ UNCHANGED <<todos, filter, loading, initialized, todosJob, filterJob,
                   filterSeen, lsTodos, lsFilter, available, now, bindingVars,
                   facadeVars, callerVars, todosVars>>

\* loadFromStorage: what the store holds afterwards
loadFromStorage(avail, itemT, itemF, ts, f) ==
    LET todosResult == loadTodos(avail, itemT)
        filterResult == loadFilter(avail, itemF)
        e1 == IF todosResult.success THEN NoError ELSE "load-todos-failed"
        e2 == IF filterResult.success THEN e1 ELSE "load-filter-failed"
    IN  [todos |-> IF todosResult.success THEN todosResult.data ELSE ts,
         todosSet |-> todosResult.success,
         filter |-> IF filterResult.success THEN filterResult.data ELSE f,
         error |-> e2,
         initialized |-> TRUE,
         loading |-> FALSE,
         ret |-> <<todosResult.success, filterResult.success>>]

\* what a call of loadTodos() or loadFilter() does: it returns a result or,
\* when replaced by a double that does so, throws
Returns(result) == [kind |-> "returns", result |-> result]

Throws == [kind |-> "throws", result |-> [success |-> FALSE, data |-> <<>>]]

\* the body of loadFromStorage (todoStore.ts:79-107) for what its two calls
\* do; init is initialized before the call
loadFromStorageOn(todosCall, filterCall, ts, f, init) ==
    LET todosResult == todosCall.result
        filterResult == filterCall.result
        e1 == IF todosResult.success THEN NoError ELSE "load-todos-failed"
        e2 == IF filterResult.success THEN e1 ELSE "load-filter-failed"
    IN  IF todosCall.kind = "throws"
        THEN [todos |-> ts, todosSet |-> FALSE, filter |-> f,
              error |-> "load-threw", initialized |-> init, loading |-> FALSE]
        ELSE IF filterCall.kind = "throws"
        THEN [todos |-> IF todosResult.success THEN todosResult.data ELSE ts,
              todosSet |-> todosResult.success, filter |-> f,
              error |-> "load-threw", initialized |-> init, loading |-> FALSE]
        ELSE [todos |-> IF todosResult.success THEN todosResult.data ELSE ts,
              todosSet |-> todosResult.success,
              filter |-> IF filterResult.success THEN filterResult.data ELSE f,
              error |-> e2, initialized |-> TRUE, loading |-> FALSE]

\* what the doubles of loadTodos and loadFilter do in the store's tests
\* (part_012:40-43, 462-469, 494-501), and throwing
TodosCalls ==
    { Returns([success |-> TRUE, data |-> <<>>]),
      Returns([success |-> TRUE, data |-> <<CallerTodo>>]),
      Returns([success |-> FALSE, data |-> <<>>]),
      Throws }

FilterCalls ==
    { Returns([success |-> TRUE, data |-> "all"]),
      Returns([success |-> TRUE, data |-> "active"]),
      Returns([success |-> FALSE, data |-> "all"]),
      Throws }

\* loadFromStorage() with loadTodos and loadFilter replaced by doubles
StoreLoadFromStorageWith ==
    \E todosCall \in TodosCalls, filterCall \in FilterCalls :
        LET r == loadFromStorageOn(todosCall, filterCall, todos, filter,
                                   initialized)
        IN  /\ todos' = r.todos
            /\ todosJob' = IF r.todosSet THEN trigger(todosJob, r.initialized)
                            ELSE todosJob
            /\ filter' = r.filter
            /\ filterJob' = IF r.filter # filter
                             THEN trigger(filterJob, r.initialized)
                             ELSE filterJob
            /\ error' = r.error
            /\ initialized' = r.initialized
            /\ loading' = r.loading
            /\ call' = Call("loadFromStorage",
                            todosCall.kind = "returns" /\ filterCall.kind = "returns")
            /\ snapshot' = relink(snapshot,
                                  IF r.todosSet THEN NoneLeft(todos) ELSE Stay(todos),
                                  r.todos)
            /\ UNCHANGED <<filterSeen, lsTodos, lsFilter, available, now,
                           bindingVars, facadeVars, todosVars>>

\* loadFromStorage runs to its end without yielding: the function is async
\* but awaits nothing
StoreLoadFromStorage ==
    LET r == loadFromStorage(available, lsTodos, lsFilter, todos, filter)
    IN  /\ todos' = r.todos
        /\ todosJob' = IF r.todosSet THEN "queued" ELSE todosJob
        /\ filter' = r.filter
        /\ filterJob' = IF r.filter # filter THEN "queued" ELSE filterJob
        /\ error' = r.error
        /\ initialized' = r.initialized
        /\ loading' = r.loading
        /\ call' = Call("loadFromStorage", TRUE)
        /\ snapshot' = relink(snapshot,
                              IF r.todosSet THEN NoneLeft(todos) ELSE Stay(todos),
                              r.todos)
        /\ UNCHANGED <<filterSeen, lsTodos, lsFilter, available, now,
                       bindingVars, facadeVars, todosVars>>

\* saveTodosToStorage / saveFilterToStorage: [item, error]
saveTodosToStorage(avail, item, ts, err) ==
    LET result == saveTodos(avail, item, ts)
    IN  [item |-> result.item,
         error |-> IF result.success THEN err ELSE "save-todos-failed"]

saveFilterToStorage(avail, item, f, err) ==
    LET result == saveFilter(avail, item, f)
    IN  [item |-> result.item,
         error |-> IF result.success THEN err ELSE "save-filter-failed"]

StoreSaveTodosToStorage ==
    LET r == saveTodosToStorage(available, lsTodos, todos, error)
    IN  /\ lsTodos' = r.item
        /\ error' = r.error
        /\ call' = Call("saveTodosToStorage", TRUE)
        /\ UNCHANGED <<todos, filter, loading, initialized, todosJob, filterJob,
                       filterSeen, lsFilter, available, now, bindingVars,
                       facadeVars, callerVars, todosVars>>

StoreSaveFilterToStorage ==
    LET r == saveFilterToStorage(available, lsFilter, filter, error)
    IN  /\ lsFilter' = r.item
        /\ error' = r.error
        /\ call' = Call("saveFilterToStorage", TRUE)
        /\ UNCHANGED <<todos, filter, loading, initialized, todosJob, filterJob,
                       filterSeen, lsTodos, available, now, bindingVars,
                       facadeVars, callerVars, todosVars>>

\* does the watcher callback of todos / of filter save?  (the guard
\* `if (initialized.value)`, read when the job runs)
todosWatchSaves(job, init) == job # "idle" /\ init

filterWatchSaves(job, init, f, seen) == job # "idle" /\ f # seen /\ init

\* The microtask flush: the queued jobs run in the order the watchers were
\* created, todos first.
FlushJobs ==
    /\ todosJob # "idle" \/ filterJob # "idle"
    /\ LET st == todosWatchSaves(todosJob, initialized)
           sf == filterWatchSaves(filterJob, initialized, filter, filterSeen)
           r1 == IF st THEN saveTodosToStorage(available, lsTodos, todos, error)
                 ELSE [item |-> lsTodos, error |-> error]
           r2 == IF sf THEN saveFilterToStorage(available, lsFilter, filter, r1.error)
                 ELSE [item |-> lsFilter, error |-> r1.error]
       IN  /\ lsTodos' = r1.item
           /\ lsFilter' = r2.item
           /\ error' = r2.error
           /\ call' = Call("flushJobs", TRUE)
    /\ todosJob' = "idle"
    /\ filterJob' = "idle"
    /\ filterSeen' = IF filterJob # "idle" THEN filter ELSE filterSeen
    /\ UNCHANGED <<todos, filter, loading, initialized, available, now,
                   bindingVars, facadeVars, callerVars, todosVars>>

(* The environment: the clock advances, and the storage probe changes its  *)
(* answer between tasks, that is when no microtask is pending.             *)

NoJob == todosJob = "idle" /\ filterJob = "idle"

Tick ==
    /\ now < MaxNow
    /\ now' = now + 1
    /\ call' = Call("tick", TRUE)
    /\ UNCHANGED <<storeVars, available, bindingVars, facadeVars, callerVars, todosVars>>

StorageProbeChanges ==
    /\ NoJob
    /\ available' = ~available
    /\ call' = Call("probe", TRUE)
    /\ UNCHANGED <<storeVars, now, bindingVars, facadeVars, callerVars, todosVars>>

----------------------------------------------------------------------------
(* useLocalStorage (index.ts:75-286): one binding of a string value, made  *)
(* with {immediate: false, autoSave: true, saveDelay: SaveDelay}.          *)

DefaultValue == "default"

Values == {"default", "v1", "v2"}

\* save() without an argument
Undefined == "undefined"

InitialItems == {Absent, Corrupt, [kind |-> "json", data |-> "v1"]}

\* mutant of load: a failed load assigns result.data, which a failure result
\* does not have
loadAssignsResultData(avail, item, defaultValue) ==
    LET result == getStorageItem(avail, item, defaultValue)
    IN  IF result.success
        THEN [value |-> result.data, error |-> NoError, onError |-> NoError]
        ELSE [value |-> Undefined, error |-> "load-failed",
              onError |-> "load-failed"]

\* load(): [value, error, onError], onError being what handleError passed
\* to the onError option, NoError when it was not called
load(avail, item, defaultValue) ==
    LET result == getStorageItem(avail, item, defaultValue)
    IN  IF result.success
        THEN [value |-> result.data, error |-> NoError, onError |-> NoError]
        ELSE [value |-> defaultValue, error |-> "load-failed",
              onError |-> "load-failed"]

\* mutant of save: a failed write is not reported
saveSwallowsFailure(avail, item, value, newValue) ==
    LET valueToSave == IF newValue # Undefined THEN newValue ELSE value
        result == setStorageItem(avail, item, [kind |-> "json", data |-> valueToSave])
    IN  IF result.success
        THEN [value |-> valueToSave, error |-> NoError, item |-> result.item,
              success |-> TRUE]
        ELSE [value |-> value, error |-> NoError, item |-> item,
              success |-> FALSE]

\* save(newValue?): [value, error, item, success]
save(avail, item, value, newValue) ==
    LET valueToSave == IF newValue # Undefined THEN newValue ELSE value
        result == setStorageItem(avail, item, [kind |-> "json", data |-> valueToSave])
    IN  IF result.success
        THEN [value |-> valueToSave, error |-> NoError, item |-> result.item,
              success |-> TRUE]
        ELSE [value |-> value, error |-> "save-failed", item |-> item,
              success |-> FALSE]

\* removeStorageItem(key) followed by remove()'s own part: [value, error, item]
remove(avail, item, value, defaultValue) ==
    IF avail THEN [value |-> defaultValue, error |-> NoError, item |-> Absent]
    ELSE [value |-> value, error |-> "remove-failed", item |-> item]

\* mutant of debouncedSave: the pending timer is not cleared
debouncedSaveNoClear(live, handle, fresh, delay) ==
    live \cup {[id |-> fresh, left |-> delay]}

\* mutant of debouncedSave: a pending timer is kept and no new one is set
debouncedSaveNoRestart(live, handle, fresh, delay) ==
    IF \E t \in live : t.id = handle THEN live
    ELSE live \cup {[id |-> fresh, left |-> delay]}

\* debouncedSave(): clearTimeout(saveTimer), then setTimeout(.., saveDelay)
\* under the handle fresh; yields the live timers afterwards
debouncedSave(live, handle, fresh, delay) ==
    {t \in live : t.id # handle} \cup {[id |-> fresh, left |-> delay]}

\* value.value becomes v: the ref's setter triggers the watcher iff v differs
CommitValue(v) ==
    /\ bvalue' = v
    /\ bjob' = (bjob \/ v # bvalue)
    /\ ver' = IF v # bvalue THEN ver + 1 ELSE ver
    /\ burst' = IF v # bvalue THEN burst + 1 ELSE burst
    /\ sinceCommit' = IF v # bvalue THEN 0 ELSE sinceCommit

notBinding == <<storeVars, now, facadeVars, callerVars, todosVars>>

\* the caller's call op returned with item under the key
Called(op, item) == [op |-> op, item |-> item]

\* the caller assigns value.value
BindingSetValue ==
    \E v \in Values \ {bvalue} :
        /\ ver < MaxCommits
        /\ CommitValue(v)
        /\ call' = Call("setValue", TRUE)
        /\ bcaller' = Called("setValue", bitem)
        /\ bonError' = NoError
        /\ UNCHANGED <<bloading, berror, saveTimer, timers, timerSeq, bitem,
                       itemVer, coalesced, available, notBinding>>

BindingLoad ==
    LET r == load(available, bitem, DefaultValue)
    IN  /\ r.value # bvalue => ver < MaxCommits
        /\ CommitValue(r.value)
        /\ berror' = r.error
        /\ bonError' = r.onError
        /\ bloading' = FALSE
        /\ call' = Call("load", r.error = NoError)
        /\ bcaller' = Called("load", bitem)
        /\ UNCHANGED <<saveTimer, timers, timerSeq, bitem, itemVer, coalesced,
                       available, notBinding>>

BindingSave ==
    \E newValue \in Values \cup {Undefined} :
        LET r == save(available, bitem, bvalue, newValue)
        IN  /\ r.value # bvalue => ver < MaxCommits
            /\ CommitValue(r.value)
            /\ berror' = r.error
            /\ bonError' = r.error
            /\ bloading' = FALSE
            /\ bitem' = r.item
            /\ itemVer' = IF r.success THEN ver' ELSE itemVer
            /\ call' = Call("save", r.success)
            /\ bcaller' = Called("save", r.item)
            /\ UNCHANGED <<saveTimer, timers, timerSeq, coalesced, available,
                           notBinding>>

BindingRemove ==
    LET r == remove(available, bitem, bvalue, DefaultValue)
    IN  /\ r.value # bvalue => ver < MaxCommits
        /\ CommitValue(r.value)
        /\ berror' = r.error
        /\ bonError' = r.error
        /\ bloading' = FALSE
        /\ bitem' = r.item
        /\ call' = Call("remove", r.error = NoError)
        /\ bcaller' = Called(IF r.error = NoError THEN "remove" ELSE "removeFailed",
                             r.item)
        /\ UNCHANGED <<saveTimer, timers, timerSeq, itemVer, coalesced,
                       available, notBinding>>

BindingReset ==
    /\ DefaultValue # bvalue => ver < MaxCommits
    /\ CommitValue(DefaultValue)
    /\ berror' = NoError
    /\ bonError' = NoError
    /\ call' = Call("reset", TRUE)
    /\ bcaller' = Called("reset", bitem)
    /\ UNCHANGED <<bloading, saveTimer, timers, timerSeq, bitem, itemVer,
                   coalesced, available, notBinding>>

\* the microtask flush runs the watcher's callback: debouncedSave()
BindingFlush ==
    /\ bjob
    /\ bjob' = FALSE
    /\ timers' = debouncedSave(timers, saveTimer, timerSeq + 1, SaveDelay)
    /\ saveTimer' = timerSeq + 1
    /\ timerSeq' = timerSeq + 1
    /\ call' = Call("flushBinding", TRUE)
    /\ bonError' = NoError
    /\ UNCHANGED <<bvalue, bloading, berror, bitem, ver, itemVer, burst,
                   sinceCommit, coalesced, bcaller, available, notBinding>>

\* a timer that is due runs its callback: save()
BindingTimer ==
    \E t \in timers :
        /\ ~bjob
        /\ t.left = 0
        /\ LET r == save(available, bitem, bvalue, Undefined)
           IN  /\ berror' = r.error
               /\ bonError' = r.error
               /\ bitem' = r.item
               /\ itemVer' = IF r.success THEN ver ELSE itemVer
               /\ call' = Call("timer", r.success)
        /\ timers' = timers \ {t}
        /\ bloading' = FALSE
        /\ coalesced' = burst
        /\ burst' = 0
        /\ UNCHANGED <<bvalue, saveTimer, bjob, timerSeq, ver, sinceCommit,
                       bcaller, available, notBinding>>

\* time passes while a timer runs; a due timer fires first, a queued job
\* runs first
BindingTick ==
    /\ ~bjob
    /\ timers # {}
    /\ \A t \in timers : t.left > 0
    /\ timers' = {[t EXCEPT !.left = t.left - 1] : t \in timers}
    /\ sinceCommit' = IF sinceCommit <= SaveDelay THEN sinceCommit + 1
                      ELSE sinceCommit
    /\ call' = Call("tick", TRUE)
    /\ bonError' = NoError
    /\ UNCHANGED <<bvalue, bloading, berror, saveTimer, bjob, timerSeq, bitem,
                   ver, itemVer, burst, coalesced, bcaller, available,
                   notBinding>>

BindingProbeChanges ==
    /\ ~bjob
    /\ available' = ~available
    /\ call' = Call("probe", TRUE)
    /\ UNCHANGED <<bindingVars, notBinding>>

----------------------------------------------------------------------------
(* useTodoStorage (part_005:1071-1309): the values held by its three       *)
(* bindings and the methods working on them.  ref(defaultValue) and        *)
(* value.value = defaultValue make a binding's value the very object       *)
(* given as defaultValue, so a write in place to the value is a write to   *)
(* that object.  A pending auto-save runs at some later time; the order    *)
(* of the pending auto-saves of different bindings is left open.           *)

Bindings == {"todos", "filter", "settings"}

\* the methods' effect on the bindings: each of todos.value and
\* settings.value is written in place or left alone ("same"), becomes a
\* new object ("fresh") or becomes the defaultValue object ("default");
\* touched are the bindings whose watcher was triggered
Rebind(kindT, kindS, touched) ==
    fbind' =
        [todosIsDefault |->
            IF kindT = "same" THEN fbind.todosIsDefault ELSE kindT = "default",
         settingsIsDefault |->
            IF kindS = "same" THEN fbind.settingsIsDefault ELSE kindS = "default",
         todosDefault |->
            IF kindT = "same" /\ fbind.todosIsDefault THEN ftodos'
            ELSE fbind.todosDefault,
         settingsDefault |->
            IF kindS = "same" /\ fbind.settingsIsDefault THEN fsettings'
            ELSE fbind.settingsDefault,
         pending |-> fbind.pending \cup touched]

\* the bindings among ks whose value changed
Changed(ks) ==
    {k \in ks : \/ (k = "todos" /\ ftodos' # ftodos)
                 \/ (k = "filter" /\ ffilter' # ffilter)
                 \/ (k = "settings" /\ fsettings' # fsettings)}

\* part_005:1062 generateId of useTodoStorage: clock text, then random text
generateIdOfStorage(ms, r) == [ts |-> ms, rnd |-> r]

\* {...todo, ...updates}: a field of updates replaces the todo's
spread(todo, updates) == updates @@ todo

\* useTodoStorage.addTodo(title): the collection afterwards
storageAddTodo(ts, title, id, ms) ==
    Append(ts, [id |-> id, title |-> trim(title), completed |-> FALSE,
                createdAt |-> ms, updatedAt |-> ms])

\* useTodoStorage.updateTodo(id, updates): [todos, ret]
storageUpdateTodo(ts, id, updates, ms) ==
    LET todoIndex == findIndex(ts, id)
    IN  IF todoIndex = 0 THEN [todos |-> ts, ret |-> FALSE]
        ELSE [todos |-> [ts EXCEPT ![todoIndex] =
                            spread(spread(ts[todoIndex], updates),
                                   [updatedAt |-> ms])],
              ret |-> TRUE]

\* useTodoStorage.deleteTodo(id): [todos, ret]
storageDeleteTodo(ts, id) ==
    LET todoIndex == findIndex(ts, id)
    IN  IF todoIndex = 0 THEN [todos |-> ts, ret |-> FALSE]
        ELSE [todos |-> SubSeq(ts, 1, todoIndex - 1)
                          \o SubSeq(ts, todoIndex + 1, Len(ts)),
              ret |-> TRUE]

\* useTodoStorage.toggleTodo(id): [todos, ret]
storageToggleTodo(ts, id, ms) ==
    LET todoIndex == findIndex(ts, id)
    IN  IF todoIndex = 0 THEN [todos |-> ts, ret |-> FALSE]
        ELSE storageUpdateTodo(ts, id,
                               [completed |-> ~ts[todoIndex].completed], ms)

\* useTodoStorage.clearCompleted(): [todos, ret]
storageClearCompleted(ts) ==
    [todos |-> SeqFilter(ts, LAMBDA t : ~t.completed),
     ret |-> Len(SeqFilter(ts, LAMBDA t : t.completed))]

\* markAllCompleted() for completed = TRUE, markAllActive() for FALSE
markAll(ts, completed, ms) ==
    SeqMap(ts, LAMBDA t : IF t.completed # completed
                          THEN [t EXCEPT !.completed = completed,
                                         !.updatedAt = ms]
                          ELSE t)

\* useTodoStorage's completionRate
completionRate(ts) ==
    LET total == Len(ts)
    IN  IF total = 0 THEN 0
        ELSE RoundPercent(Len(SeqFilter(ts, LAMBDA t : t.completed)), total)

\* the text given to importData: unparsable, or a document whose todos
\* member is an array or not, with an optional filter ("none" when absent)
\* and optional settings (no fields when absent)
Doc(isArray, ts, f, st) ==
    [kind |-> "json", isArray |-> isArray, todos |-> ts, filter |-> f,
     settings |-> st]

CorruptDoc ==
    [kind |-> "corrupt", isArray |-> FALSE, todos |-> <<>>, filter |-> "none",
     settings |-> <<>>]

\* an id that is missing or ''
EmptyId == [ts |-> 0 - 1, rnd |-> ""]

JsonTodo(id, completed) ==
    todoToJson([id |-> id, title |-> Str(0, 1, 0), completed |-> completed,
                createdAt |-> 0, updatedAt |-> 0])

ImportedId == [ts |-> 0, rnd |-> "r1"]

\* the JSON todo j with a number for title, with text for completed,
\* without createdAt and updatedAt
NumberTitled(j) == [j EXCEPT !.titleType = "number"]

TextCompleted(j) == [j EXCEPT !.completedType = "string"]

Undated(j) == [j EXCEPT !.createdAt = NoDate, !.updatedAt = NoDate]

ImportDocs ==
    { CorruptDoc,
      Doc(FALSE, <<>>, "none", <<>>),
      Doc(TRUE, <<JsonTodo(EmptyId, FALSE)>>, "active", <<>>),
      Doc(TRUE, <<JsonTodo(ImportedId, TRUE),
                  NumberTitled(JsonTodo(ImportedId, FALSE))>>,
          "completed", [theme |-> "dark"]),
      Doc(TRUE, <<TextCompleted(JsonTodo(ImportedId, FALSE))>>, "completed",
          [theme |-> "dark"]),
      Doc(TRUE, <<Undated(JsonTodo(ImportedId, FALSE))>>, "none", <<>>),
      Doc(TRUE, <<JsonTodo(ImportedId, FALSE), JsonTodo(ImportedId, TRUE)>>,
          "none", <<>>),
      Doc(TRUE, <<JsonTodo(ImportedId, TRUE)>>, "bogus", <<>>),
      Doc(TRUE, <<JsonTodo(ImportedId, FALSE)>>, "active", [theme |-> "dark"]) }

\* mutant of importData: the filter of a document is taken before its todos
\* are looked at
importDataFilterFirst(doc, ts, f, st) ==
    IF doc.kind = "corrupt"
    THEN [ret |-> FALSE, todos |-> ts, filter |-> f, settings |-> st]
    ELSE IF \/ ~doc.isArray
            \/ \E i \in 1..Len(doc.todos) :
                  \/ doc.todos[i].id = EmptyId
                  \/ doc.todos[i].titleType # "string"
                  \/ doc.todos[i].completedType # "boolean"
    THEN [ret |-> FALSE, todos |-> ts,
          filter |-> IF doc.filter \in Filters THEN doc.filter ELSE f,
          settings |-> st]
    ELSE [ret |-> TRUE,
          todos |-> SeqMap(doc.todos, todoFromJson),
          filter |-> IF doc.filter \in Filters THEN doc.filter ELSE f,
          settings |-> IF DOMAIN doc.settings # {}
                       THEN spread(st, doc.settings) ELSE st]

\* useTodoStorage.exportData(): the document its text is
exportData(ts, f, st) == Doc(TRUE, SeqMap(ts, todoToJson), f, st)

\* useTodoStorage.importData(jsonData): [ret, todos, filter, settings]
importData(doc, ts, f, st) ==
    IF \/ doc.kind = "corrupt"
       \/ ~doc.isArray
       \/ \E i \in 1..Len(doc.todos) :
             \/ doc.todos[i].id = EmptyId
             \/ doc.todos[i].titleType # "string"
             \/ doc.todos[i].completedType # "boolean"
    THEN [ret |-> FALSE, todos |-> ts, filter |-> f, settings |-> st]
    ELSE [ret |-> TRUE,
          todos |-> SeqMap(doc.todos, todoFromJson),
          filter |-> IF doc.filter \in Filters THEN doc.filter ELSE f,
          settings |-> IF DOMAIN doc.settings # {}
                       THEN spread(st, doc.settings) ELSE st]

notFacade == <<storeVars, available, bindingVars, callerVars, todosVars>>

FacadeTitles == {Str(2, 0, 0), Str(1, 1, 1)}

\* the updates the callers pass, each a Partial<Todo>: {completed: true},
\* {title: 'a'}, {title: ' '}, {id: .., createdAt: ..}
FacadeUpdates ==
    {[completed |-> TRUE], [title |-> Str(0, 1, 0)], [title |-> Str(1, 0, 0)],
     [id |-> ImportedId, createdAt |-> 1]}

FacadeIdArgs == IdsOf(ftodos) \cup {MissingId}

FacadeAddTodo ==
    \E title \in FacadeTitles, r \in RandomParts :
        /\ Len(ftodos) < MaxTodos
        /\ ftodos' = storageAddTodo(ftodos, title, generateIdOfStorage(now, r), now)
        /\ fsettings' = [fsettings EXCEPT !.lastAccessTime = <<"iso", now>>]
        /\ call' = Call("storage.addTodo", TRUE)
        /\ UNCHANGED <<ffilter, lsSettings, now, notFacade>>
        /\ Rebind("same", "same", {"todos"} \cup Changed({"settings"}))

FacadeUpdateTodo ==
    \E id \in FacadeIdArgs, updates \in FacadeUpdates :
        LET r == storageUpdateTodo(ftodos, id, updates, now)
        IN  /\ ftodos' = r.todos
            /\ call' = Call("storage.updateTodo", r.ret)
            /\ UNCHANGED <<ffilter, fsettings, lsSettings, now, notFacade>>
            /\ Rebind("same", "same", IF r.ret THEN {"todos"} ELSE {})

FacadeDeleteTodo ==
    \E id \in FacadeIdArgs :
        LET r == storageDeleteTodo(ftodos, id)
        IN  /\ ftodos' = r.todos
            /\ call' = Call("storage.deleteTodo", r.ret)
            /\ UNCHANGED <<ffilter, fsettings, lsSettings, now, notFacade>>
            /\ Rebind("same", "same", IF r.ret THEN {"todos"} ELSE {})

FacadeToggleTodo ==
    \E id \in FacadeIdArgs :
        LET r == storageToggleTodo(ftodos, id, now)
        IN  /\ ftodos' = r.todos
            /\ call' = Call("storage.toggleTodo", r.ret)
            /\ UNCHANGED <<ffilter, fsettings, lsSettings, now, notFacade>>
            /\ Rebind("same", "same", IF r.ret THEN {"todos"} ELSE {})

FacadeClearCompleted ==
    /\ ftodos' = storageClearCompleted(ftodos).todos
    /\ call' = Call("storage.clearCompleted", TRUE)
    /\ UNCHANGED <<ffilter, fsettings, lsSettings, now, notFacade>>
    /\ Rebind("fresh", "same", {"todos"})

FacadeMarkAll ==
    \E completed \in BOOLEAN :
        /\ ftodos' = markAll(ftodos, completed, now)
        /\ call' = Call("storage.markAll", TRUE)
        /\ UNCHANGED <<ffilter, fsettings, lsSettings, now, notFacade>>
        /\ Rebind("same", "same", Changed({"todos"}))

\* the caller assigns filter.value.value
FacadeSetFilter ==
    \E f \in Filters :
        /\ ffilter' = f
        /\ call' = Call("storage.setFilter", TRUE)
        /\ UNCHANGED <<ftodos, fsettings, lsSettings, now, notFacade>>
        /\ Rebind("same", "same", Changed({"filter"}))

\* importData's effect on the bindings: todos.value.value = data.todos,
\* filter.value.value = data.filter, settings.update(data.settings)
Imported(doc, ret) ==
    IF ~ret THEN Rebind("same", "same", {})
    ELSE IF DOMAIN doc.settings # {}
    THEN Rebind("fresh", "fresh", {"todos", "settings"} \cup Changed({"filter"}))
    ELSE Rebind("fresh", "same", {"todos"} \cup Changed({"filter"}))

FacadeImportData ==
    \E doc \in ImportDocs :
        LET r == importData(doc, ftodos, ffilter, fsettings)
        IN  /\ ftodos' = r.todos
            /\ ffilter' = r.filter
            /\ fsettings' = r.settings
            /\ call' = Call("storage.importData", r.ret)
            /\ UNCHANGED <<lsSettings, now, notFacade>>
            /\ Imported(doc, r.ret)

\* part_005:1008 DEFAULT_SETTINGS, of which theme, language and
\* lastAccessTime are kept
DEFAULT_SETTINGS ==
    [theme |-> "auto", language |-> "zh-CN", lastAccessTime |-> <<"iso", 0>>]

\* the settings an earlier session saved
StoredSettings == [kind |-> "json", data |-> DEFAULT_SETTINGS]

\* the bindings after useTodoStorage() was called with itemT and itemS
\* under the todos and settings keys and no filter stored: load()
\* (immediate: true) assigns the parsed object of a stored key, which
\* triggers the watcher; for an absent or unreadable key it assigns the
\* defaultValue object itself, which the ref holds already
Created(itemT, itemS) ==
    [todosIsDefault |-> itemT.kind # "json",
     settingsIsDefault |-> itemS.kind # "json",
     todosDefault |-> <<>>, settingsDefault |-> DEFAULT_SETTINGS,
     pending |-> (IF itemT.kind = "json" THEN {"todos"} ELSE {})
                     \cup (IF itemS.kind = "json" THEN {"settings"} ELSE {})]

CreatedOnAbsent == Created(Absent, Absent)

CreatedOnStored == Created(serializeData(<<>>), StoredSettings)

\* the partial settings the callers pass: {theme: 'dark'},
\* {language: 'en-US'}, {theme: 'light', lastAccessTime: ..}, {}
SettingsUpdates ==
    {[theme |-> "dark"], [language |-> "en-US"],
     [theme |-> "light", lastAccessTime |-> <<"iso", 0>>], <<>>}

\* useLocalStorageObject.update(updates): {...value, ...updates}
update(st, updates) == spread(st, updates)

\* mutant of saveSettings: the updates are merged into the defaults
saveSettingsOnDefaults(avail, item, settings, ms) ==
    LET newSettings == spread(spread(DEFAULT_SETTINGS, settings),
                              [lastAccessTime |-> <<"iso", ms>>])
    IN  setStorageItem(avail, item, [kind |-> "json", data |-> newSettings])

\* todoStorage's saveSettings(settings): the result of its setStorageItem;
\* its DEFAULT_SETTINGS (part_005:474) holds what useTodoStorage's does
saveSettings(avail, item, settings, ms) ==
    LET currentResult == getStorageItem(avail, item, DEFAULT_SETTINGS)
        currentSettings == IF currentResult.success THEN currentResult.data
                           ELSE DEFAULT_SETTINGS
        newSettings == spread(spread(currentSettings, settings),
                              [lastAccessTime |-> <<"iso", ms>>])
    IN  setStorageItem(avail, item, [kind |-> "json", data |-> newSettings])

\* removeStorageItem(key): the item afterwards
removeStorageItem(avail, item) == IF avail THEN Absent ELSE item

\* settings.update(updates) of useTodoStorage's settings binding
FacadeSettingsUpdate ==
    \E updates \in SettingsUpdates :
        /\ fsettings' = update(fsettings, updates)
        /\ call' = CallWith("storage.settings.update", TRUE, updates)
        /\ UNCHANGED <<ftodos, ffilter, lsSettings, now, notFacade>>
        /\ Rebind("same", "fresh", {"settings"})

\* settings.set('theme', v): value.value[objKey] = value
FacadeSettingsSet ==
    \E v \in {"dark", "auto"} :
        /\ fsettings' = [fsettings EXCEPT !.theme = v]
        /\ call' = Call("storage.settings.set", TRUE)
        /\ UNCHANGED <<ftodos, ffilter, lsSettings, now, notFacade>>
        /\ Rebind("same", "same", Changed({"settings"}))

\* todos.reset(): value.value = defaultValue
FacadeTodosReset ==
    /\ ftodos' = fbind.todosDefault
    /\ call' = Call("storage.todos.reset", TRUE)
    /\ UNCHANGED <<ffilter, fsettings, lsSettings, now, notFacade>>
    /\ Rebind("default", "same",
              IF fbind.todosIsDefault THEN {} ELSE {"todos"})

\* settings.reset()
FacadeSettingsReset ==
    /\ fsettings' = fbind.settingsDefault
    /\ call' = Call("storage.settings.reset", TRUE)
    /\ UNCHANGED <<ftodos, ffilter, lsSettings, now, notFacade>>
    /\ Rebind("same", "default",
              IF fbind.settingsIsDefault THEN {} ELSE {"settings"})

\* clearAllData(): todos.clear(), filter.reset(), settings.reset()
FacadeClearAllData ==
    /\ ftodos' = <<>>
    /\ ffilter' = "all"
    /\ fsettings' = fbind.settingsDefault
    /\ call' = Call("storage.clearAllData", TRUE)
    /\ UNCHANGED <<lsSettings, now, notFacade>>
    /\ Rebind("fresh", "default",
              {"todos"} \cup Changed({"filter"})
                  \cup (IF fbind.settingsIsDefault THEN {} ELSE {"settings"}))

\* the auto-save of one binding runs: its watcher's timer calls save()
FacadeAutoSave ==
    \E k \in fbind.pending :
        LET item == CASE k = "todos" -> lsTodos
                      [] k = "filter" -> lsFilter
                      [] k = "settings" -> lsSettings
            json == CASE k = "todos" -> serializeData(ftodos)
                      [] k = "filter" -> [kind |-> "json", data |-> ffilter]
                      [] k = "settings" -> [kind |-> "json", data |-> fsettings]
            result == setStorageItem(available, item, json)
        IN  /\ lsTodos' = IF k = "todos" THEN result.item ELSE lsTodos
            /\ lsFilter' = IF k = "filter" THEN result.item ELSE lsFilter
            /\ lsSettings' = IF k = "settings" THEN result.item ELSE lsSettings
            /\ fbind' = [fbind EXCEPT !.pending = @ \ {k}]
            /\ call' = Call("storage.autoSave", result.success)
            /\ UNCHANGED <<todos, filter, loading, error, initialized, todosJob,
                           filterJob, filterSeen, ftodos, ffilter, fsettings,
                           available, now, bindingVars, callerVars, todosVars>>

\* todoStorage's saveSettings(settings)
StorageSaveSettings ==
    \E settings \in SettingsUpdates :
        LET result == saveSettings(available, lsSettings, settings, now)
        IN  /\ lsSettings' = result.item
            /\ call' = CallWith("saveSettings", result.success, settings)
            /\ UNCHANGED <<storeVars, ftodos, ffilter, fsettings, fbind,
                           available, now, bindingVars, callerVars, todosVars>>

\* todoStorage's clearAppData()
StorageClearAppData ==
    /\ lsTodos' = removeStorageItem(available, lsTodos)
    /\ lsFilter' = removeStorageItem(available, lsFilter)
    /\ lsSettings' = removeStorageItem(available, lsSettings)
    /\ call' = Call("clearAppData", available)
    /\ UNCHANGED <<todos, filter, loading, error, initialized, todosJob,
                   filterJob, filterSeen, ftodos, ffilter, fsettings, fbind,
                   available, now, bindingVars, callerVars, todosVars>>

\* the caller has taken no snapshot
NoSnapshot ==
    [taken |-> FALSE, todos |-> <<>>, filter |-> "all", loading |-> FALSE,
     error |-> NoError]

\* getStateSnapshot(): a new array of the store's objects
getStateSnapshot(ts, f, l, err) ==
    [taken |-> TRUE,
     todos |-> [i \in 1..Len(ts) |-> [todo |-> ts[i], link |-> i]],
     filter |-> f, loading |-> l, error |-> err]

notStore == <<available, now, bindingVars, facadeVars, todosVars>>

\* the caller takes a snapshot
TakeSnapshot ==
    /\ snapshot' = getStateSnapshot(todos, filter, loading, error)
    /\ call' = Call("getStateSnapshot", TRUE)
    /\ UNCHANGED <<storeVars, notStore>>

\* the caller writes a field of an object of the snapshot:
\* snapshot.todos[i].completed = !snapshot.todos[i].completed
SnapshotWriteEntity ==
    \E i \in 1..Len(snapshot.todos) :
        LET e == snapshot.todos[i]
            written == [e.todo EXCEPT !.completed = ~e.todo.completed]
        IN  /\ snapshot.taken
            /\ snapshot' = [snapshot EXCEPT !.todos =
                   [j \in 1..Len(snapshot.todos) |->
                       IF j = i \/ (e.link # 0 /\ snapshot.todos[j].link = e.link)
                       THEN [snapshot.todos[j] EXCEPT !.todo = written]
                       ELSE snapshot.todos[j]]]
            /\ todos' = IF e.link # 0 THEN [todos EXCEPT ![e.link] = written]
                         ELSE todos
            /\ todosJob' = IF e.link # 0 THEN trigger(todosJob, initialized)
                            ELSE todosJob
            /\ call' = Call("snapshot.writeEntity", TRUE)
            /\ UNCHANGED <<filter, loading, error, initialized, filterJob,
                           filterSeen, lsTodos, lsFilter, notStore>>

\* the caller writes the snapshot's array and members: snapshot.todos.pop(),
\* snapshot.filter = 'completed'
SnapshotWriteList ==
    /\ snapshot.taken
    /\ Len(snapshot.todos) > 0
    /\ snapshot' = [snapshot EXCEPT
                       !.todos = SubSeq(snapshot.todos, 1, Len(snapshot.todos) - 1),
                       !.filter = "completed"]
    /\ call' = Call("snapshot.writeList", TRUE)
    /\ UNCHANGED <<storeVars, notStore>>

\* what an earlier session left under the two keys
StoredTodo ==
    [id |-> [ts |-> 0, rnd |-> "r2"], title |-> Str(0, 1, 0), completed |-> FALSE,
     createdAt |-> 0, updatedAt |-> 0]

InitialTodosItems == {Absent, Corrupt, serializeData(<<StoredTodo>>)}

InitialFilterItems == {Absent, Corrupt, [kind |-> "json", data |-> "active"]}

Init ==
    /\ todos = <<>>
    /\ filter = "all"
    /\ loading = FALSE
    /\ error = NoError
    /\ initialized = FALSE
    /\ todosJob = "idle"
    /\ filterJob = "idle"
    /\ filterSeen = "all"
    /\ lsTodos \in InitialTodosItems \cup {serializeData(<<>>)}
    /\ lsFilter \in InitialFilterItems
    /\ available \in BOOLEAN
    /\ now = 0
    /\ call = Call("init", TRUE)
    /\ bvalue = DefaultValue
    /\ bloading = FALSE
    /\ berror = NoError
    /\ bonError = NoError
    /\ saveTimer = 0
    /\ bjob = FALSE
    /\ timers = {}
    /\ timerSeq = 0
    /\ bitem \in InitialItems
    /\ ver = 0
    /\ itemVer = 0
    /\ burst = 0
    /\ sinceCommit = 0
    /\ coalesced = 0
    /\ bcaller = Called("none", Absent)
    /\ ftodos = <<>>
    /\ ffilter = "all"
    /\ fsettings = DEFAULT_SETTINGS
    /\ lsSettings \in {Absent, Corrupt, StoredSettings}
    /\ fbind \in {Created(t, st) : t \in {Absent, serializeData(<<>>)},
                                   st \in {Absent, StoredSettings}}
    /\ snapshot = NoSnapshot
    /\ isProcessing = FALSE
    /\ reloading = FALSE

----------------------------------------------------------------------------
(* Spec: the store with its persistence - the watchers, the microtask      *)
(* flush, the two storage keys and the storage probe - driven with one     *)
(* valid and one blank title and one random suffix.                        *)

StoreTitles == {Str(0, 0, 0), Str(1, 1, 1)}

StoreAddTodo == AddTodoOn(StoreTitles, {"r1"}, MaxStored)

Next ==
    \/ StoreAddTodo
    \/ StoreToggleTodo
    \/ StoreClearAllTodos
    \/ StoreSetFilter
    \/ StoreClearError
    \/ StoreLoadFromStorage
    \/ StoreSaveTodosToStorage
    \/ StoreSaveFilterToStorage
    \/ FlushJobs
    \/ StorageProbeChanges

InitStore ==
    /\ Init
    /\ bitem = Absent
    /\ lsTodos \in InitialTodosItems
    /\ lsSettings = Absent
    /\ fbind = CreatedOnAbsent

Spec == InitStore /\ [][Next]_vars

----------------------------------------------------------------------------
(* SpecCrud: the calls on the collection within one task, with every kind  *)
(* of title and colliding random suffixes.  The microtask flush is not     *)
(* part of it: it writes error, lsTodos and lsFilter only.                 *)

CrudAddTodo == AddTodoOn(Titles, RandomParts, MaxTodos)

CrudUpdateTodo == UpdateTodoOn(Titles)

NextCrud ==
    \/ CrudAddTodo
    \/ StoreToggleTodo
    \/ StoreDeleteTodo
    \/ CrudUpdateTodo
    \/ StoreToggleAllTodos
    \/ StoreClearCompleted
    \/ StoreSetTodos
    \/ StoreClearAllTodos
    \/ StoreAddMultipleTodos
    \/ StoreLoadFromStorage
    \/ Tick

InitCrud ==
    /\ InitStore
    /\ lsTodos = serializeData(<<StoredTodo>>)
    /\ lsFilter = Absent
    /\ available

SpecCrud == InitCrud /\ [][NextCrud]_vars

----------------------------------------------------------------------------
(* SpecSnapshot: the store and a caller holding a snapshot. *)

SnapshotAddTodo == AddTodoOn({Str(1, 1, 1)}, RandomParts, MaxTodos)

NextSnapshot ==
    \/ SnapshotAddTodo
    \/ StoreToggleTodo
    \/ StoreDeleteTodo
    \/ StoreClearCompleted
    \/ StoreSetFilter
    \/ TakeSnapshot
    \/ SnapshotWriteEntity
    \/ SnapshotWriteList

InitSnapshot == InitStore /\ lsTodos = Absent /\ lsFilter = Absent /\ available

SpecSnapshot == InitSnapshot /\ [][NextSnapshot]_vars

----------------------------------------------------------------------------
(* SpecLoad: the store with loadTodos and loadFilter replaced by doubles,  *)
(* as in the store's tests.                                                *)

NextLoad ==
    \/ StoreLoadFromStorageWith
    \/ StoreAddTodo
    \/ StoreToggleTodo
    \/ StoreSetFilter
    \/ StoreClearError
    \/ FlushJobs

InitLoad == InitStore /\ lsTodos = Absent /\ lsFilter = Absent /\ available

SpecLoad == InitLoad /\ [][NextLoad]_vars

----------------------------------------------------------------------------
(* SpecStats: collections long enough for a completion rate that is not a  *)
(* whole percentage, built with one title.                                 *)

StatsAddTodo == AddTodoOn({Str(1, 1, 1)}, RandomParts, MaxRated)

NextStats ==
    \/ StatsAddTodo
    \/ StoreToggleTodo
    \/ StoreDeleteTodo
    \/ StoreToggleAllTodos
    \/ StoreClearCompleted
    \/ Tick

InitStats == InitStore /\ lsTodos = Absent /\ lsFilter = Absent /\ available

SpecStats == InitStats /\ [][NextStats]_vars

----------------------------------------------------------------------------
(* SpecFacade: the methods of useTodoStorage on its in-memory values. *)

\* importData(exportData())
FacadeExportImport ==
    LET doc == exportData(ftodos, ffilter, fsettings)
        r == importData(doc, ftodos, ffilter, fsettings)
    IN  /\ ftodos' = r.todos
        /\ ffilter' = r.filter
        /\ fsettings' = r.settings
        /\ call' = Call("storage.exportImport", r.ret)
        /\ UNCHANGED <<lsSettings, now, notFacade>>
        /\ Imported(doc, r.ret)

NextFacade ==
    \/ FacadeAddTodo
    \/ FacadeUpdateTodo
    \/ FacadeDeleteTodo
    \/ FacadeToggleTodo
    \/ FacadeClearCompleted
    \/ FacadeMarkAll
    \/ FacadeSetFilter
    \/ FacadeImportData
    \/ FacadeExportImport
    \/ Tick

\* an earlier session left [], no filter and the default settings
InitFacade ==
    /\ Init
    /\ bitem = Absent
    /\ lsTodos = serializeData(<<>>)
    /\ lsFilter = Absent
    /\ lsSettings = StoredSettings
    /\ fbind = CreatedOnStored
    /\ available

SpecFacade == InitFacade /\ [][NextFacade]_vars

----------------------------------------------------------------------------
(* SpecDurable: useTodoStorage with its three keys, created on an empty    *)
(* storage or on what an earlier session left, and todoStorage's           *)
(* clearAppData on the same keys.                                          *)

DurableAddTodo ==
    /\ Len(ftodos) < MaxStored
    /\ ftodos' = storageAddTodo(ftodos, Str(0, 1, 0), generateIdOfStorage(now, "r1"), now)
    /\ fsettings' = [fsettings EXCEPT !.lastAccessTime = <<"iso", now>>]
    /\ call' = Call("storage.addTodo", TRUE)
    /\ UNCHANGED <<ffilter, lsSettings, now, notFacade>>
    /\ Rebind("same", "same", {"todos"} \cup Changed({"settings"}))

NextDurable ==
    \/ DurableAddTodo
    \/ FacadeSetFilter
    \/ FacadeSettingsSet
    \/ FacadeTodosReset
    \/ FacadeSettingsReset
    \/ FacadeClearAllData
    \/ FacadeAutoSave
    \/ StorageClearAppData

InitDurable ==
    /\ Init
    /\ bitem = Absent
    /\ available
    /\ lsFilter = Absent
    /\ \/ lsTodos = Absent /\ lsSettings = Absent /\ fbind = CreatedOnAbsent
       \/ /\ lsTodos = serializeData(<<>>)
          /\ lsSettings = StoredSettings
          /\ fbind = CreatedOnStored

SpecDurable == InitDurable /\ [][NextDurable]_vars

----------------------------------------------------------------------------
(* SpecSettings: the settings key under useTodoStorage's settings binding  *)
(* and todoStorage's saveSettings.                                         *)

NextSettings ==
    \/ FacadeSettingsUpdate
    \/ FacadeSettingsSet
    \/ FacadeSettingsReset
    \/ FacadeAutoSave
    \/ StorageSaveSettings
    \/ StorageProbeChanges
    \/ Tick

InitSettings ==
    /\ Init
    /\ bitem = Absent
    /\ available
    /\ lsTodos = Absent
    /\ lsFilter = Absent
    /\ fbind = Created(lsTodos, lsSettings)

SpecSettings == InitSettings /\ [][NextSettings]_vars

----------------------------------------------------------------------------
(* SpecBinding: one useLocalStorage binding with auto-save. *)

NextBinding ==
    \/ BindingSetValue
    \/ BindingLoad
    \/ BindingSave
    \/ BindingRemove
    \/ BindingReset
    \/ BindingFlush
    \/ BindingTimer
    \/ BindingTick
    \/ BindingProbeChanges

InitBinding ==
    /\ Init
    /\ lsTodos = Absent
    /\ lsFilter = Absent
    /\ lsSettings = Absent
    /\ fbind = CreatedOnAbsent

SpecBinding == InitBinding /\ [][NextBinding]_vars

----------------------------------------------------------------------------
(* useTodos (useTodos.ts:100-496), made with {autoInit: false, onError}    *)
(* and no onChange.  Eight of its operations are guarded by isProcessing.  *)
(* Seven of them call a store action that does not yield, so their         *)
(* try/finally is over when the call returns; reload() awaits              *)
(* store.loadFromStorage(), which has run to its end by then, and the      *)
(* finally block of reload() runs in a later microtask.                    *)

\* what a guarded operation returns when the guard holds it off: null,
\* false, nothing, 0, []
Sentinel ==
    [addTodo |-> <<>>, toggleTodo |-> FALSE, updateTodo |-> FALSE,
     deleteTodo |-> FALSE, toggleAllTodos |-> Undefined, clearCompleted |-> 0,
     addMultipleTodos |-> <<>>, reload |-> Undefined]

\* handleError(error): store.setError(error.message) and onError(error)
handleError(message) == [error |-> message, onError |-> message]

\* mutant of guarded: the store is called whatever isProcessing holds
guardedNoGuard(processing, sentinel, o, threw) ==
    IF threw
    THEN [called |-> TRUE, ret |-> sentinel, error |-> handleError(o.error).error,
          onError |-> handleError(o.error).onError, processing |-> FALSE]
    ELSE [called |-> TRUE, ret |-> o.ret, error |-> o.error,
          onError |-> NoError, processing |-> FALSE]

\* the guard and the try/catch/finally around a store call with outcome o,
\* which threw iff threw: whether the store was called, what the operation
\* returns, isProcessing afterwards, what onError was given and, when the
\* store was called, the store's error afterwards
guarded(processing, sentinel, o, threw) ==
    IF processing
    THEN [called |-> FALSE, ret |-> sentinel, error |-> o.error,
          onError |-> NoError, processing |-> processing]
    ELSE IF threw
    THEN [called |-> TRUE, ret |-> sentinel, error |-> handleError(o.error).error,
          onError |-> handleError(o.error).onError, processing |-> FALSE]
    ELSE [called |-> TRUE, ret |-> o.ret, error |-> o.error,
          onError |-> NoError, processing |-> FALSE]

\* the guard of reload() and its steps up to the await
reload(processing) ==
    IF processing
    THEN [called |-> FALSE, ret |-> Sentinel.reload, processing |-> processing,
          pending |-> FALSE]
    ELSE [called |-> TRUE, ret |-> Undefined, processing |-> TRUE,
          pending |-> TRUE]

\* a guarded operation op(arg) around a store action with outcome o
TodosStep(op, arg, sentinel, o, threw, touched, moved) ==
    LET g == guarded(isProcessing, sentinel, o, threw)
    IN  /\ IF g.called
           THEN /\ Len(o.todos) <= MaxTodos
                /\ CommitMoved([o EXCEPT !.error = g.error], touched, moved)
           ELSE UNCHANGED <<storeVars, available, now, bindingVars, facadeVars,
                            callerVars>>
        /\ isProcessing' = g.processing
        /\ reloading' = reloading
        /\ call' = CallWith(op, g.called /\ o.ok,
                            [arg |-> arg, called |-> g.called, ret |-> g.ret,
                             onError |-> g.onError])

TodosTitles == {Str(0, 0, 0), Str(1, 1, 1)}

TodosAddTodo ==
    \E title \in TodosTitles :
        LET o == addTodo(todos, title, generateId(now, "r1"), now)
        IN  TodosStep("useTodos.addTodo", title, Sentinel.addTodo, o, ~o.ok,
                      o.ok, Stay(todos))

TodosToggleTodo ==
    \E id \in IdArgs :
        LET o == toggleTodo(todos, id, now)
        IN  TodosStep("useTodos.toggleTodo", id, Sentinel.toggleTodo, o, FALSE,
                      o.ok, Stay(todos))

TodosUpdateTodo ==
    \E id \in IdArgs, title \in TodosTitles :
        LET o == updateTodo(todos, id, title, now)
        IN  TodosStep("useTodos.updateTodo", <<id, title>>, Sentinel.updateTodo,
                      o, FALSE, o.ok, Stay(todos))

TodosDeleteTodo ==
    \E id \in IdArgs :
        LET o == deleteTodo(todos, id)
        IN  TodosStep("useTodos.deleteTodo", id, Sentinel.deleteTodo, o, FALSE,
                      o.ok, Spliced(todos, findIndex(todos, id)))

\* toggleAllTodos(completed?): <<>> stands for no argument
TodosToggleAllTodos ==
    \E completed \in {<<>>, <<TRUE>>, <<FALSE>>} :
        LET targetState == IF completed # <<>> THEN completed[1]
                           ELSE ~allCompleted(todos)
            o == toggleAllTodos(todos, targetState, now)
        IN  TodosStep("useTodos.toggleAllTodos", completed,
                      Sentinel.toggleAllTodos, [o EXCEPT !.ret = Undefined],
                      FALSE, o.todos # todos, Stay(todos))

TodosClearCompleted ==
    LET o == clearCompleted(todos)
    IN  TodosStep("useTodos.clearCompleted", <<>>, Sentinel.clearCompleted, o,
                  FALSE, TRUE, ActiveKept(todos))

TodosAddMultipleTodos ==
    \E titles \in {<<Str(2, 0, 0)>>, <<Str(1, 1, 1), Str(2, 0, 0)>>} :
        LET ids == [i \in 1..2 |-> generateId(now, "r2")]
            o == addMultipleTodos(todos, titles, ids, now)
        IN  TodosStep("useTodos.addMultipleTodos", titles,
                      Sentinel.addMultipleTodos, o, FALSE, o.ok, Stay(todos))

\* reload() up to its await: store.loadFromStorage() has run to its end
TodosReload ==
    LET g == reload(isProcessing)
        r == loadFromStorage(available, lsTodos, lsFilter, todos, filter)
    IN  /\ IF g.called
           THEN /\ todos' = r.todos
                /\ todosJob' = IF r.todosSet THEN "queued" ELSE todosJob
                /\ filter' = r.filter
                /\ filterJob' = IF r.filter # filter THEN "queued" ELSE filterJob
                /\ error' = r.error
                /\ initialized' = r.initialized
                /\ loading' = r.loading
                /\ snapshot' = relink(snapshot,
                                      IF r.todosSet THEN NoneLeft(todos)
                                      ELSE Stay(todos),
                                      r.todos)
                /\ UNCHANGED <<filterSeen, lsTodos, lsFilter>>
           ELSE UNCHANGED <<storeVars, callerVars>>
        /\ isProcessing' = g.processing
        /\ reloading' = (reloading \/ g.pending)
        /\ call' = CallWith("useTodos.reload", g.called,
                            [arg |-> <<>>, called |-> g.called, ret |-> g.ret,
                             onError |-> NoError])
        /\ UNCHANGED <<available, now, bindingVars, facadeVars>>

\* reload() after its await, in the microtask behind the watchers' flush:
\* the finally block
TodosReloadSettles ==
    /\ reloading
    /\ NoJob
    /\ isProcessing' = FALSE
    /\ reloading' = FALSE
    /\ call' = Call("useTodos.reload.settled", TRUE)
    /\ UNCHANGED <<storeVars, available, now, bindingVars, facadeVars, callerVars>>

(* SpecTodos: the store behind one useTodos, every call going through      *)
(* useTodos.                                                               *)

NextTodos ==
    \/ TodosAddTodo
    \/ TodosToggleTodo
    \/ TodosUpdateTodo
    \/ TodosDeleteTodo
    \/ TodosToggleAllTodos
    \/ TodosClearCompleted
    \/ TodosAddMultipleTodos
    \/ TodosReload
    \/ TodosReloadSettles
    \/ FlushJobs

InitTodos == InitStore /\ lsFilter = Absent

SpecTodos == InitTodos /\ [][NextTodos]_vars

----------------------------------------------------------------------------
(* Claims on the collection *)

\* C1: in every state reachable by the store's operations, totalCount equals
\* completedCount + activeCount.
C1_CountsAddUp == totalCount(todos) = completedCount(todos) + activeCount(todos)

\* C1 witness: a collection holding a completed and an active Todo
C1_Witness == completedCount(todos) >= 1 /\ activeCount(todos) >= 1

\* C4: in every reachable state of the collection every stored title has at
\* most 200 characters, whichever of addTodo, addMultipleTodos and updateTodo
\* stored it.
C4_TitlesWithinLimit ==
    \A i \in 1..Len(todos) : TitleLen(todos[i].title) <= MaxTitleLength

\* x is an integer nearest to 100 * c / t
NearestPercent(x, c, t) == 2 * x * t - t <= 200 * c /\ 200 * c <= 2 * x * t + t

\* C5: in every reachable state completionRate, as useTodos' stats and as
\* useTodoStorage compute it, is an integer in [0,100], the rounding of
\* completed / total * 100, and 0 when the collection is empty.
C5_CompletionRate ==
    \A rate \in {statsCompletionRate(todos), completionRate(todos)} :
        /\ rate \in 0..100
        /\ totalCount(todos) = 0 => rate = 0
        /\ totalCount(todos) > 0 =>
              NearestPercent(rate, completedCount(todos), totalCount(todos))

\* C5 witness: two of three Todos completed, a rate rounded up to 67
C5_Witness ==
    /\ totalCount(todos) = 3
    /\ completedCount(todos) = 2
    /\ statsCompletionRate(todos) = 67
    /\ completionRate(todos) = 67

ByTitleOrId == {"addTodo", "updateTodo", "toggleTodo", "deleteTodo"}

\* C9, on the inputs: a blank or too long title makes addTodo throw and
\* updateTodo return false, an id that is not in the collection makes
\* toggleTodo, updateTodo and deleteTodo return false.  A title is too long
\* when it has more than 200 characters once trimmed.
C9_BadInputsFail ==
    /\ \A title \in Titles, r \in RandomParts :
          IsBlank(title) \/ IsTooLong(title) =>
            /\ ~addTodo(todos, title, generateId(now, r), now).ok
            /\ \A id \in IdArgs :
                  LET o == updateTodo(todos, id, title, now)
                  IN  ~o.ok /\ o.ret = FALSE
    /\ \A title \in Titles :
          LET o == updateTodo(todos, MissingId, title, now)
          IN  ~o.ok /\ o.ret = FALSE
    /\ LET o == toggleTodo(todos, MissingId, now) IN ~o.ok /\ o.ret = FALSE
    /\ LET o == deleteTodo(todos, MissingId) IN ~o.ok /\ o.ret = FALSE

\* C9, on the step: a failing call leaves the collection as it was and sets
\* error
C9_FailedCallStep ==
    call'.op \in ByTitleOrId /\ ~call'.ok => todos' = todos /\ error' # NoError

\* C9: every failing store CRUD call leaves the collection unchanged and
\* sets error to a message: addTodo and updateTodo with a blank or too long
\* title, toggleTodo, updateTodo and deleteTodo with an id that is not in the
\* collection (these return false).
C9_FailuresLeaveCollection == []C9_BadInputsFail /\ [][C9_FailedCallStep]_vars

\* C9 witness: toggleTodo has just failed on a collection that holds a Todo
C9_Witness ==
    /\ call.op = "toggleTodo" /\ ~call.ok
    /\ Len(todos) >= 1 /\ error = "not-found"

IsValidTitle(title) == ~IsBlank(title) /\ TitleLen(title) <= MaxTitleLength

\* C10, on the inputs: addTodo with a valid title succeeds and returns the
\* entity it appended, which carries the trimmed title
C10_ValidInputsAppend ==
    \A title \in Titles, r \in RandomParts :
        IsValidTitle(title) =>
            LET o == addTodo(todos, title, generateId(now, r), now)
            IN  /\ o.ok
                /\ o.ret = <<o.todos[Len(o.todos)]>>
                /\ o.ret[1].title = trim(title)
                /\ o.todos = Append(todos, o.ret[1])

\* C10, on the step: a successful addTodo appends one entity, not completed,
\* created and updated at the same instant, with a trimmed title, and
\* leaves the entities before it as they were
C10_AddTodoStep ==
    call'.op = "addTodo" /\ call'.ok =>
        /\ totalCount(todos') = totalCount(todos) + 1
        /\ SubSeq(todos', 1, Len(todos)) = todos
        /\ LET e == todos'[Len(todos')]
           IN  /\ e.completed = FALSE
               /\ e.createdAt = e.updatedAt
               /\ e.createdAt = now
               /\ e.title = trim(e.title)
               /\ e.title.core > 0

\* C10: addTodo(title) with a title that is non-empty after trimming and at
\* most 200 characters long appends exactly one new entity at the end of the
\* collection, with the trimmed title, completed = false and createdAt =
\* updatedAt, returns it, raises totalCount by one and leaves every earlier
\* entity unchanged.
C10_AddTodoAppends == []C10_ValidInputsAppend /\ [][C10_AddTodoStep]_vars

\* C10 witness: addTodo has just succeeded on a collection that held a Todo
C10_Witness == call.op = "addTodo" /\ call.ok /\ Len(todos) = 2

----------------------------------------------------------------------------
(* Claims on the store's persistence *)

\* C6: auto-persist never writes pre-initialization state: a mutation of the
\* entities or of the filter committed while initialized = false never
\* results in a saveTodos / saveFilter write, also when its change
\* notification is delivered after the mutation, so that the in-memory
\* state of before the first load cannot replace what storage holds.
C6_NoWriteOfPreInitState ==
    [][call'.op = "flushJobs" =>
          /\ todosJob = "queuedPreInit" => lsTodos' = lsTodos
          /\ filterJob = "queuedPreInit" => lsFilter' = lsFilter]_vars

\* C7: the mutations of a binding since its last auto-save are followed by
\* exactly one auto-save: while some are outstanding a watcher job or a
\* timer is pending and never otherwise, and the timer's callback runs
\* saveDelay after the last of them, leaves no timer behind and writes the
\* value then in memory under the key (storage permitting).
C7_BurstPending == (burst >= 1) <=> (bjob \/ timers # {})

C7_TimerStep ==
    call'.op = "timer" =>
        /\ burst >= 1
        /\ sinceCommit = SaveDelay
        /\ timers' = {}
        /\ available => bitem' = [kind |-> "json", data |-> bvalue]
        /\ bvalue' = bvalue

C7_DebounceCoalesces == []C7_BurstPending /\ [][C7_TimerStep]_vars

C7_Witness ==
    /\ call.op = "timer"
    /\ call.ok
    /\ coalesced >= 2
    /\ bitem = [kind |-> "json", data |-> bvalue]
    /\ timers = {}

\* C8: a binding has at most one live debounce timer, the one saveTimer
\* names, and no write to the key persists a value committed earlier than
\* the one the previous write persisted.
C8_OneLiveTimer ==
    /\ Cardinality(timers) <= 1
    /\ \A t \in timers : t.id = saveTimer

C8_SingleTimerInOrder == []C8_OneLiveTimer /\ [][itemVer' >= itemVer]_vars

C8_Witness ==
    /\ timerSeq >= 2
    /\ Cardinality(timers) = 1
    /\ itemVer >= 1
    /\ itemVer < ver

Distinct(ts) == \A i, j \in 1..Len(ts) : ts[i].id = ts[j].id => i = j

\* C2: the ids of the entities of a collection are pairwise distinct, in the
\* store's collection and in the one useTodoStorage holds, whatever
\* operations ran (importData among them).
C2_IdsPairwiseDistinct == Distinct(todos) /\ Distinct(ftodos)

\* C3: no stored title is empty or whitespace-only, in the store's
\* collection and in the one useTodoStorage.addTodo appends to.
C3_NoBlankTitle ==
    /\ \A i \in 1..Len(todos) : ~IsBlank(todos[i].title)
    /\ \A i \in 1..Len(ftodos) : ~IsBlank(ftodos[i].title)

----------------------------------------------------------------------------
(* Claims on the store's collection, continued *)

RECURSIVE IsSubseq(_, _)
\* a is b with some elements left out
IsSubseq(a, b) ==
    IF a = <<>> THEN TRUE
    ELSE IF b = <<>> THEN FALSE
    ELSE IF Head(a) = Head(b) THEN IsSubseq(Tail(a), Tail(b))
    ELSE IsSubseq(a, Tail(b))

IdSeq(ts) == [i \in 1..Len(ts) |-> ts[i].id]

\* C16, on the collection: clearCompleted() keeps the active Todos, as they
\* are and in their order, and returns how many it removed
C16_KeepsActive ==
    LET o == clearCompleted(todos)
    IN  /\ o.ok
        /\ o.ret = completedCount(todos)
        /\ o.ret = Len(todos) - Len(o.todos)
        /\ IsSubseq(o.todos, todos)
        /\ \A i \in 1..Len(o.todos) : ~o.todos[i].completed
        /\ Len(o.todos) = activeCount(todos)

\* C16, on the step: the store's collection after clearCompleted()
C16_ClearStep ==
    call'.op = "clearCompleted" =>
        /\ IsSubseq(todos', todos)
        /\ \A i \in 1..Len(todos') : ~todos'[i].completed
        /\ Len(todos') = activeCount(todos)
        /\ error' = NoError

\* C16: clearCompleted() removes exactly the completed entities, returns the
\* number removed (0 when none) and leaves the active entities unchanged and
\* in their original relative order.
C16_ClearCompleted == []C16_KeepsActive /\ [][C16_ClearStep]_vars

\* C16 witness: an active Todo followed by two completed ones, of which
\* clearCompleted() removes 2
C16_Witness ==
    /\ Len(todos) = 3
    /\ ~todos[1].completed /\ todos[2].completed /\ todos[3].completed
    /\ clearCompleted(todos).ret = 2
    /\ clearCompleted(todos).todos = <<todos[1]>>

Matches(t, f) ==
    IF f = "active" THEN ~t.completed
    ELSE IF f = "completed" THEN t.completed
    ELSE TRUE

\* C17, on the collection: filteredTodos under each filter
C17_FilteredIsSubsequence ==
    \A f \in Filters :
        LET r == filteredTodos(todos, f)
        IN  /\ IsSubseq(r, todos)
            /\ \A i \in 1..Len(r) : Matches(r[i], f)
            /\ Len(r) = Cardinality({i \in 1..Len(todos) : Matches(todos[i], f)})

\* C17, on the step: the Todos that stay keep their relative order
C17_OrderKept ==
    \/ IsSubseq(IdSeq(todos), IdSeq(todos'))
    \/ IsSubseq(IdSeq(todos'), IdSeq(todos))

\* C17: for every collection and filter, filteredTodos is the subsequence of
\* the collection, in insertion order, of exactly the entities matching the
\* filter (all: every entity; active: completed = false; completed:
\* completed = true); no operation reorders the surviving entities.
C17_FilteredTodos == []C17_FilteredIsSubsequence /\ [][C17_OrderKept]_vars

\* C17 witness: the completed Todos are the first and the third of three
C17_Witness ==
    /\ Len(todos) = 3
    /\ todos[1].completed /\ ~todos[2].completed /\ todos[3].completed
    /\ filteredTodos(todos, "completed") = <<todos[1], todos[3]>>
    /\ filteredTodos(todos, "active") = <<todos[2]>>
    /\ filteredTodos(todos, "all") = todos

\* C18, on the collection: toggleAllTodos(c) for both values of c
C18_OnlyOthersChange ==
    \A c \in BOOLEAN :
        LET o == toggleAllTodos(todos, c, now)
        IN  /\ o.ok
            /\ Len(o.todos) = Len(todos)
            /\ \A i \in 1..Len(todos) :
                  /\ o.todos[i].completed = c
                  /\ o.todos[i].id = todos[i].id
                  /\ o.todos[i].title = todos[i].title
                  /\ o.todos[i].createdAt = todos[i].createdAt
                  /\ todos[i].completed = c => o.todos[i] = todos[i]
                  /\ todos[i].completed # c => o.todos[i].updatedAt = now

\* C18, on the step: the store's collection after toggleAllTodos(c)
C18_ToggleAllStep ==
    call'.op = "toggleAllTodos" =>
        /\ IdSeq(todos') = IdSeq(todos)
        /\ \A i, j \in 1..Len(todos') : todos'[i].completed = todos'[j].completed
        /\ \A i \in 1..Len(todos) :
              IF todos'[i].completed = todos[i].completed
              THEN todos'[i] = todos[i]
              ELSE todos'[i] = [todos[i] EXCEPT !.completed = ~todos[i].completed,
                                                !.updatedAt = now]

\* C18: toggleAllTodos(c) leaves every entity whose completed flag already
\* equals c completely unchanged (updatedAt included), sets completed = c and
\* updatedAt on every other entity, and changes neither the membership nor
\* the order of the collection; afterwards every entity has completed = c.
C18_ToggleAllFrame == []C18_OnlyOthersChange /\ [][C18_ToggleAllStep]_vars

\* C18 witness: after toggleAllTodos(true) at time 1, one Todo still has the
\* updatedAt of time 0 and another, created at time 0, has that of time 1
C18_Witness ==
    /\ call.op = "toggleAllTodos"
    /\ now = 1
    /\ \E i, j \in 1..Len(todos) :
          /\ todos[i].completed /\ todos[j].completed
          /\ todos[i].updatedAt = 0
          /\ todos[j].createdAt = 0 /\ todos[j].updatedAt = 1

----------------------------------------------------------------------------
(* Claims on loadFromStorage *)

RecordsTodosFailure(err) ==
    err \in {"load-todos-failed", "load-todos-and-filter-failed"}

RecordsFilterFailure(err) ==
    err \in {"load-filter-failed", "load-todos-and-filter-failed"}

\* C15: loadFromStorage() loads the Todos and the filter independently: a
\* load that succeeds is applied to the live state whatever the other does,
\* and error afterwards records every load that failed, both when both did.
C15_LoadsIndependently ==
    [][call'.op = "loadFromStorage" =>
          LET todosResult == loadTodos(available, lsTodos)
              filterResult == loadFilter(available, lsFilter)
          IN  /\ todosResult.success => todos' = todosResult.data
              /\ filterResult.success => filter' = filterResult.data
              /\ ~todosResult.success => RecordsTodosFailure(error')
              /\ ~filterResult.success => RecordsFilterFailure(error')
              /\ todosResult.success /\ filterResult.success => error' = NoError]_vars

----------------------------------------------------------------------------
(* Claims on the binding's failures *)

\* C20, on the storage: load() fails when the storage is unavailable and
\* when the stored text does not parse, and then only
C20_FailureCases ==
    (load(available, bitem, DefaultValue).error # NoError)
        <=> (~available \/ bitem = Corrupt)

\* C20, after the call: the state a failed load() leaves
C20_AfterFailedLoad ==
    call.op = "load" /\ ~call.ok =>
        /\ bvalue = DefaultValue
        /\ berror # NoError
        /\ bonError = berror
        /\ ~bloading

\* C20: when binding.load() fails (storage unavailable or stored text
\* unparsable), value is set to defaultValue, error is set to a non-null
\* message, onError is invoked with it and loading returns to false; value
\* is never left undefined.
C20_FailedLoadFallsBack ==
    /\ C20_FailureCases
    /\ C20_AfterFailedLoad
    /\ bvalue \in Values

\* C20 witness: load() has just failed on unparsable text and replaced a
\* value that was not the default
C20_Witness ==
    /\ call.op = "load" /\ ~call.ok
    /\ available /\ bitem = Corrupt
    /\ bvalue = DefaultValue /\ bjob
    /\ berror = "load-failed" /\ bonError = "load-failed"

----------------------------------------------------------------------------
(* Claims on useTodoStorage *)

MutatingOps ==
    {"toggleTodo", "updateTodo", "toggleAllTodos",
     "storage.toggleTodo", "storage.updateTodo", "storage.markAll"}

SameIdAndCreatedAt(before, after) ==
    /\ Len(after) = Len(before)
    /\ \A i \in 1..Len(before) :
          /\ after[i].id = before[i].id
          /\ after[i].createdAt = before[i].createdAt

\* C19: the id and createdAt of an entity never change after creation:
\* toggleTodo, updateTodo, toggleAllTodos, markAllCompleted and markAllActive,
\* of the store and of useTodoStorage, leave them as they are whatever
\* arguments they are given.
C19_IdAndCreatedAtKept ==
    [][call'.op \in MutatingOps =>
          /\ SameIdAndCreatedAt(todos, todos')
          /\ SameIdAndCreatedAt(ftodos, ftodos')]_vars

\* is the text one importData must refuse: it does not parse, todos is
\* missing or not a list, or an element lacks a non-empty id, a string
\* title or a boolean completed
IsRefused(doc) ==
    \/ doc = CorruptDoc
    \/ ~doc.isArray
    \/ \E i \in 1..Len(doc.todos) :
          \/ doc.todos[i].id = EmptyId
          \/ doc.todos[i] = NumberTitled(doc.todos[i])
          \/ doc.todos[i] = TextCompleted(doc.todos[i])

\* C12, on the texts: importData refuses each of them in every state,
\* returning false and the state as it is
C12_RefusedTextsChangeNothing ==
    \A doc \in ImportDocs :
        IsRefused(doc) =>
            importData(doc, ftodos, ffilter, fsettings) =
                [ret |-> FALSE, todos |-> ftodos, filter |-> ffilter,
                 settings |-> fsettings]

\* C12, on the step: a call of importData that returns false changes nothing
C12_FailedImportStep ==
    call'.op = "storage.importData" /\ ~call'.ok =>
        UNCHANGED <<ftodos, ffilter, fsettings>>

\* C12: importData(text) is all-or-nothing: if the text does not parse, or
\* todos is missing or not a list, or any element lacks a non-empty id, a
\* string title or a boolean completed, it returns false and the live
\* entities, filter and settings are exactly what they were before the call.
C12_ImportAllOrNothing ==
    []C12_RefusedTextsChangeNothing /\ [][C12_FailedImportStep]_vars

\* C12 witness: importData has just returned false in a state that holds an
\* entity, a filter and a theme other than those of the refused texts
C12_Witness ==
    /\ call.op = "storage.importData" /\ ~call.ok
    /\ Len(ftodos) = 2
    /\ ffilter = "active"
    /\ fsettings.theme = "auto"

\* C13: round trip: in every state S the operations of useTodoStorage reach,
\* importData(exportData()) returns true and leaves the entities (ids,
\* titles, completed flags, timestamps, order), the filter and the settings
\* equal to S.
C13_RoundTrip ==
    importData(exportData(ftodos, ffilter, fsettings), ftodos, ffilter, fsettings)
        = [ret |-> TRUE, todos |-> ftodos, filter |-> ffilter,
           settings |-> fsettings]

----------------------------------------------------------------------------
(* Claims on getStateSnapshot *)

SnapshotOps == {"getStateSnapshot", "snapshot.writeEntity", "snapshot.writeList"}

\* what the caller reads from the snapshot
SnapshotContent ==
    [todos |-> [i \in 1..Len(snapshot.todos) |-> snapshot.todos[i].todo],
     filter |-> snapshot.filter, loading |-> snapshot.loading,
     error |-> snapshot.error]

\* C11: getStateSnapshot() returns a structurally independent copy: no write
\* to the snapshot, to its list or to an entity object in it, changes the
\* store's state, and no operation of the store changes what a snapshot
\* already taken holds.
C11_SnapshotIndependent ==
    [][/\ call'.op \in {"snapshot.writeEntity", "snapshot.writeList"} =>
             UNCHANGED <<todos, filter, loading, error>>
       /\ snapshot.taken /\ call'.op \notin SnapshotOps =>
             SnapshotContent' = SnapshotContent]_vars

----------------------------------------------------------------------------
(* Claims on the bindings' defaults and on clearAllData *)

\* C21: after reset() of a binding, its value equals the defaultValue the
\* binding was created with ([] for the todos binding, the default settings
\* for the settings binding, the default text for the text binding),
\* whatever was done to the value before, writes in place through push,
\* splice or set while the value still held the default included.
C21_ResetRestoresDefault ==
    [][/\ call'.op = "storage.todos.reset" => ftodos' = <<>>
       /\ call'.op = "storage.settings.reset" => fsettings' = DEFAULT_SETTINGS
       /\ call'.op = "reset" => bvalue' = DefaultValue]_vars

\* C23: clearAllData() removes the three persisted keys (todos, filter,
\* settings) from storage and resets the in-memory todos, filter and
\* settings to their defaults.
C23_ClearAllDataClears ==
    [][call'.op = "storage.clearAllData" =>
          /\ lsTodos' = Absent /\ lsFilter' = Absent /\ lsSettings' = Absent
          /\ ftodos' = <<>> /\ ffilter' = "all"
          /\ fsettings' = DEFAULT_SETTINGS]_vars

----------------------------------------------------------------------------
(* Claims on the binding's reset, remove and failed auto-saves *)

\* C22: reset() does not touch storage: as long as reset() is the last call
\* the caller made, right after it and after any saveDelay has elapsed, the
\* key holds the text it held before the reset.
C22_ResetLeavesStorage == bcaller.op = "reset" => bitem = bcaller.item

\* C29: after a successful remove() on a binding with autoSave, and with no
\* further call by the caller, the key stays absent: neither remove()'s
\* reset of value nor a timer pending from an earlier mutation writes it.
C29_RemovedStaysAbsent == bcaller.op = "remove" => bitem = Absent

\* the steps that are no call of the binding's caller
QuietOps == {"tick", "probe", "flushBinding"}

\* C24: a failed auto-save is retried only by a later mutation: it leaves
\* error set and nothing scheduled, and error and the key stay as they are
\* until the caller calls again; an auto-save that succeeds, such as the one
\* the next mutation schedules, leaves the key holding the current value and
\* error clear.
C24_FailedSaveStep ==
    /\ call'.op = "timer" /\ ~call'.ok =>
          /\ berror' = "save-failed" /\ bonError' = "save-failed"
          /\ bitem' = bitem
          /\ timers' = {} /\ ~bjob'
    /\ berror = "save-failed" /\ call'.op \in QuietOps =>
          berror' = berror /\ bitem' = bitem
    /\ call'.op = "timer" /\ call'.ok =>
          bitem' = [kind |-> "json", data |-> bvalue'] /\ berror' = NoError
    /\ call'.op = "setValue" => bjob'
    /\ call'.op = "flushBinding" => \E t \in timers' : t.id = saveTimer'

C24_RetryOnlyByMutation == [][C24_FailedSaveStep]_vars

\* the auto-save of a second mutation has just failed: the key holds an
\* older value, error is set and no timer is left
C24_Witness ==
    /\ call.op = "timer" /\ ~call.ok
    /\ ver >= 2
    /\ berror = "save-failed"
    /\ bitem # [kind |-> "json", data |-> bvalue]
    /\ timers = {}

----------------------------------------------------------------------------
(* Claims on the store's error *)

\* C25: the store's error holds the latest failure message only: once a
\* failure has set it, it stays non-null until a later failure overwrites
\* it or the caller calls clearError(); it does not disappear otherwise.
C25_ErrorStaysUntilCleared ==
    [][error # NoError /\ error' = NoError => call'.op = "clearError"]_vars

----------------------------------------------------------------------------
(* Claims on the settings *)

\* the settings a saveSettings call starts from
SettingsUnder(item) == IF item.kind = "json" THEN item.data ELSE DEFAULT_SETTINGS

\* after holds updates merged into before, on the fields ks
MergedOn(ks, before, updates, after) ==
    \A k \in ks :
        after[k] = IF k \in DOMAIN updates THEN updates[k] ELSE before[k]

\* C26 as stated: settings updates merge: after saveSettings(partial) or
\* settings.update(partial), every settings field not named in partial keeps
\* the value it had before the update and every field named in partial has
\* the value supplied.
C26_UpdatesMerge ==
    [][/\ call'.op = "storage.settings.update" =>
             MergedOn(DOMAIN fsettings, fsettings, call'.arg, fsettings')
       /\ call'.op = "saveSettings" /\ call'.ok =>
             MergedOn(DOMAIN DEFAULT_SETTINGS, SettingsUnder(lsSettings),
                      call'.arg, lsSettings'.data)]_vars

\* C26 as amended: settings.update(partial) merges every field; a successful
\* saveSettings(partial) merges every field but lastAccessTime into the
\* stored settings (the defaults when the key is absent or unreadable) and
\* sets lastAccessTime to the time of the call, named in partial or not.
C26_UpdatesMergeButAccessTime ==
    [][/\ call'.op = "storage.settings.update" =>
             MergedOn(DOMAIN fsettings, fsettings, call'.arg, fsettings')
       /\ call'.op = "saveSettings" /\ call'.ok =>
             /\ lsSettings'.kind = "json"
             /\ MergedOn(DOMAIN DEFAULT_SETTINGS \ {"lastAccessTime"},
                         SettingsUnder(lsSettings), call'.arg, lsSettings'.data)
             /\ lsSettings'.data.lastAccessTime = <<"iso", now>>]_vars

\* saveSettings({language: 'en-US'}) has kept a theme saved before
C26_Witness ==
    /\ call.op = "saveSettings" /\ call.ok
    /\ call.arg = [language |-> "en-US"]
    /\ lsSettings.data.theme = "dark"
    /\ lsSettings.data.language = "en-US"

----------------------------------------------------------------------------
(* Claims on addMultipleTodos *)

\* the places of titles holding a title that is not empty after trimming
KeptPlaces(titles) == {i \in 1..Len(titles) : titles[i].core > 0}

\* the j-th of them
KeptPlace(titles, j) ==
    CHOOSE k \in KeptPlaces(titles) :
        Cardinality({i \in KeptPlaces(titles) : i <= k}) = j

C27_BatchStep ==
    call'.op = "addMultipleTodos" =>
        LET titles == call'.arg.titles
            ret == call'.arg.ret
        IN  IF KeptPlaces(titles) = {}
            THEN /\ ret = <<>>
                 /\ error' # NoError
                 /\ todos' = todos
            ELSE /\ todos' = todos \o ret
                 /\ Len(ret) = Cardinality(KeptPlaces(titles))
                 /\ \A j \in 1..Len(ret) :
                       /\ ret[j].title = trim(titles[KeptPlace(titles, j)])
                       /\ ~ret[j].completed
                       /\ ret[j].createdAt = ret[1].createdAt
                       /\ ret[j].updatedAt = ret[j].createdAt

\* C27: addMultipleTodos(titles) appends at the end of the collection, in
\* the order of titles, one entity per title that is not empty after
\* trimming, each with completed = false and all with one createdAt =
\* updatedAt, and returns them; when no title is valid it returns [], sets
\* error and leaves the collection as it is.
C27_AddMultipleAppends == [][C27_BatchStep]_vars

\* a list of a valid and a blank title was added to a collection of one
C27_Witness ==
    /\ call.op = "addMultipleTodos" /\ call.ok
    /\ Len(call.arg.titles) = 2
    /\ Len(call.arg.ret) = 1
    /\ Len(todos) = 2


----------------------------------------------------------------------------
(* Claims on useTodos *)

GuardedOps ==
    {"useTodos.addTodo", "useTodos.toggleTodo", "useTodos.updateTodo",
     "useTodos.deleteTodo", "useTodos.toggleAllTodos", "useTodos.clearCompleted",
     "useTodos.addMultipleTodos", "useTodos.reload"}

SentinelOf(op) ==
    CASE op = "useTodos.addTodo" -> Sentinel.addTodo
      [] op = "useTodos.toggleTodo" -> Sentinel.toggleTodo
      [] op = "useTodos.updateTodo" -> Sentinel.updateTodo
      [] op = "useTodos.deleteTodo" -> Sentinel.deleteTodo
      [] op = "useTodos.toggleAllTodos" -> Sentinel.toggleAllTodos
      [] op = "useTodos.clearCompleted" -> Sentinel.clearCompleted
      [] op = "useTodos.addMultipleTodos" -> Sentinel.addMultipleTodos
      [] op = "useTodos.reload" -> Sentinel.reload

\* a guarded operation invoked while another is in progress returns its
\* sentinel and leaves the store and the flag as they are; one invoked
\* while none is in progress and that does not yield leaves the flag false
C28_GuardedStep ==
    call'.op \in GuardedOps =>
        /\ isProcessing =>
              /\ call'.arg.ret = SentinelOf(call'.op)
              /\ UNCHANGED <<storeVars, callerVars>>
              /\ isProcessing'
        /\ (~isProcessing /\ call'.op # "useTodos.reload") => ~isProcessing'
        /\ (~isProcessing /\ call'.op = "useTodos.reload") =>
              isProcessing' /\ reloading'

\* C28: while a guarded operation of useTodos is in progress every guarded
\* operation invoked returns its failure sentinel without calling the
\* store, and isProcessing is false again once the operation in progress
\* has ended, whether it succeeded or failed.
C28_GuardPreventsConcurrency ==
    [][/\ C28_GuardedStep
       /\ call'.op = "useTodos.reload.settled" => ~isProcessing'
       /\ (isProcessing' /\ ~isProcessing) => call'.op = "useTodos.reload"
       /\ (reloading' => isProcessing')]_vars

\* C28 witness: an addTodo with a valid title was held off while a reload
\* was in progress, and the collection is empty
C28_Witness ==
    /\ call.op = "useTodos.addTodo"
    /\ ~IsBlank(call.arg.arg)
    /\ ~call.arg.called
    /\ reloading
    /\ todos = <<>>

\* C30: every addTodo of useTodos with a valid title adds the entity to the
\* store, or leaves a failure in the store's error or gives one to onError,
\* also while a reload() has not settled.
C30_NoSilentDrop ==
    [][(/\ call'.op = "useTodos.addTodo"
        /\ ~IsBlank(call'.arg.arg)
        /\ ~IsTooLong(call'.arg.arg))
       => \/ /\ Len(todos') = Len(todos) + 1
             /\ todos'[Len(todos')].title = trim(call'.arg.arg)
          \/ error' # NoError
          \/ call'.arg.onError # NoError]_vars
====
